---- MODULE Spec2Model ----
(***************************************************************************)
(* Repository ingestion pipeline of github-explorer-mcp.                   *)
(*                                                                         *)
(* Two requests, each with its own GitIngester for the same Reference,     *)
(* share the on-disk snapshot cache file and the working-copy directory.   *)
(* Every awaited I/O operation of fetchRepoData, CacheManager and          *)
(* RepositoryCloner is one atomic step; the synchronous code that follows  *)
(* an await up to the next await belongs to the same step.                 *)
(***************************************************************************)
EXTENDS Integers, Sequences, FiniteSets, TLC

VARIABLES
    now,          \* Date.now(), in milliseconds
    branch,       \* TRUE when the ingester was built with a branch
    dir,          \* the working-copy directory os.tmpdir()/git_explorer_<hash>
    file,         \* the cache file <cacheDir>/<key>.json
    pc,           \* where each request is inside fetchRepoData
    calls,        \* number of fetchRepoData calls each ingester has started
    snap,         \* this.summary, this.tree, this.content of each ingester
    analyzer,     \* this.analyzer !== null
    repoPath,     \* this.repoPath !== null
    before,       \* history: snap at the start of the current call
    trace         \* history: what the current call has done so far

VARIABLES
    tmpDirs,      \* the directories os.tmpdir()/git_explorer_<hash>, by path
    job,          \* the cloneRepository call of each caller
    cloneCalls,   \* number of cloneRepository calls started
    lastReturned  \* history: url of the latest finished call, if it returned

VARIABLES
    written,      \* the files readRepositoryContent reads, in readdir order
    request,      \* filePaths given to extractFilesContent
    extracted     \* the results of extractFilesContent so far

VARIABLES
    workdir,      \* the working copy: the entries fs.readdir gives, nested
    query,        \* the pattern given to searchContent
    maxResults,   \* the maxResults given to searchContent
    searched,     \* history: what searchContent returned and what it touched
    rendered,     \* history: the strings generateDirectoryTree returned, and for what
    blob,         \* history: the string readRepositoryContent returned
    remoteTree    \* history: the string formatRepositoryTree returned

VARIABLES
    ingester,     \* this.repoPath, this.searcher, this.differ of a GitIngester
    op,           \* the searchRepositoryContent or getDiff call in progress
    opCalls       \* number of such calls started

VARIABLES
    proc          \* the server process: its entry point, timer, handlers

VARIABLES
    remote,       \* a fetchRepoData call whose clone is answered by the remote API
    objects,      \* what getFilesAsObjects returned for the request
    cm            \* a cache file and the CacheManager calls on its key

vars == <<now, branch, dir, file, pc, calls, snap, analyzer,
          repoPath, before, trace, tmpDirs, job, cloneCalls,
          lastReturned, written, request, extracted,
          workdir, query, maxResults, searched, rendered, blob, remoteTree,
          ingester, op, opCalls, proc, remote, objects, cm>>

Requests == {1, 2}

\* Bound: fetchRepoData calls in all (a tool call fetches once, and
\* searchRepositoryContent / getDiff fetch again while repoPath is null).
MaxCalls == 2

----------------------------------------------------------------------------
\* Time

DefaultExpiryMinutes == 60

MsPerMinute == 60 * 1000

\* mcp-server builds every ingester as new GitIngester(url, branch): no
\* options, so options?.cacheExpiry is undefined (0 stands for it)
CacheExpiryOption == 0

\* GitIngester constructor: options?.cacheExpiry || 60
ExpiryMinutes(opt) == IF opt = 0 THEN DefaultExpiryMinutes ELSE opt

\* CacheManager constructor: cacheExpiryMinutes * 60 * 1000
CacheExpiry == ExpiryMinutes(CacheExpiryOption) * MsPerMinute

\* The instants the clock visits: an entry written at 0 is read before, at
\* and after its expiry; one written later is read before its expiry.
Instants == {0, CacheExpiry, CacheExpiry + 1}

----------------------------------------------------------------------------
\* Snapshot values.  A field value names the production it came from:
\* <<kind, request, call, detail>>.

NULL == <<"null", 0, 0, "none">>

NullSnap == [summary |-> NULL, tree |-> NULL, content |-> NULL]

TreeOfScan(r)    == <<"scan", r, calls[r], "tree">>
SummaryOfScan(r) == <<"scan", r, calls[r], "plain">>
ContentOfScan(r) == <<"scan", r, calls[r], "blob">>

\* this.summary = {...this.summary, stars, forks, description, lastUpdated}
Enrich(s) == <<s[1], s[2], s[3], "enriched">>

\* GitHubAPI.fetchRepositoryData: {summary, tree, content}
RemoteData(r) ==
    [summary |-> <<"remote", r, calls[r], "api">>,
     tree    |-> <<"remote", r, calls[r], "tree">>,
     content |-> <<"remote", r, calls[r], "important">>]

Source(v) == <<v[1], v[2], v[3]>>

\* all three fields were produced by one scan or one fallback fetch
SameSource(s) ==
    /\ s.summary # NULL
    /\ Source(s.summary) = Source(s.tree)
    /\ Source(s.tree) = Source(s.content)

----------------------------------------------------------------------------
\* Cache file

NoEntry == [summary |-> NULL, tree |-> NULL, content |-> NULL]

\* the CacheEntry literal handed to saveToCache.  Its timestamp: Date.now() is
\* left out: no code reads it back, expiry goes by the file's mtime.
EntryOf(s) == [summary |-> s.summary, tree |-> s.tree, content |-> s.content]

NoFile == [exists |-> FALSE, mtime |-> 0, body |-> [kind |-> "empty", entry |-> NoEntry]]

\* JSON.stringify(data)
JSONStringify(e) == [kind |-> "json", entry |-> e]

\* JSON.parse(data): the entry, or a SyntaxError for a text that is no JSON
\* document (an empty or truncated file, two documents written over each other)
JSONParse(body) ==
    IF body.kind = "json" THEN [ok |-> TRUE, entry |-> body.entry]
    ELSE [ok |-> FALSE, entry |-> NoEntry]

\* mutant: the entry expires one millisecond early
Expired_AtBoundary(mtime) == now - mtime >= CacheExpiry

\* loadFromCache: Date.now() - stat.mtimeMs > this.cacheExpiry
Expired(mtime) == now - mtime > CacheExpiry

\* mutant: the hit forgets this.content
FromCache_DropsContent(e) == [summary |-> e.summary, tree |-> e.tree, content |-> NULL]

\* fetchRepoData: the three assignments of a cache hit
FromCache(e) == [summary |-> e.summary, tree |-> e.tree, content |-> e.content]

----------------------------------------------------------------------------
\* Working-copy directory: absent; empty (just created); partial (a git clone
\* by request `by` is running in it); repo (a clone of the requested base URL);
\* foreign (a clone whose origin is another URL); junk (no git repository).
Dir(st) == [st |-> st, by |-> 0]

Partial(r) == [st |-> "partial", by |-> r]

----------------------------------------------------------------------------
\* URLs.  A URL is the sequence of its pieces: a repository address ("R1"
\* stands for https://host/owner/repo-1), ".git", "/", "/tree/", a ref name.

NoUrl == <<>>

NoBranch == ""

BranchNames == {"main"}

\* the urls a tool call hands to new GitIngester(url, branch)
UserUrls == { <<"R1">>, <<"R1", "/">> }

\* GitIngester constructor: if (branch) this.url = `${url}/tree/${branch}`
IngesterUrl(url, b) == IF b = NoBranch THEN url ELSE url \o <<"/tree/", b>>

CallUrls == { IngesterUrl(u, b) : u \in UserUrls, b \in BranchNames \cup {NoBranch} }

\* RepositoryCloner.extractBaseUrl: url.replace(/\/tree\/.*$/, '')
ExtractBaseUrl(url) ==
    LET at == {i \in 1..Len(url) : url[i] = "/tree/"}
    IN IF at = {} THEN url
       ELSE SubSeq(url, 1, (CHOOSE i \in at : \A j \in at : i <= j) - 1)

\* RepositoryCloner.normalizeUrl: url.replace(/\.git$/, '').replace(/\/$/, '')
NormalizeUrl(url) ==
    LET a == IF Len(url) > 0 /\ url[Len(url)] = ".git" THEN SubSeq(url, 1, Len(url) - 1) ELSE url
    IN IF Len(a) > 0 /\ a[Len(a)] = "/" THEN SubSeq(a, 1, Len(a) - 1) ELSE a

\* RepositoryCloner.extractBranch: url.match(/\/tree\/([^/]+)/)
ExtractBranch(url) ==
    LET at == {i \in 1..(Len(url) - 1) : url[i] = "/tree/" /\ url[i + 1] \in BranchNames}
    IN IF at = {} THEN NoBranch
       ELSE url[(CHOOSE i \in at : \A j \in at : i <= j) + 1]

\* cloneRepository: sha256 of the url as given, first 12 hex digits: the same
\* for the same string, taken to differ for different strings
RepoHash(url) == url

\* cloneRepository: path.join(os.tmpdir(), `git_explorer_${repoHash}`)
TempDir(url) == <<"tmp", "git_explorer_">> \o RepoHash(url)

\* mutant: any origin is accepted
RemoteMatches_Any(remoteUrl, baseUrl) == TRUE

\* cloneRepository: remoteUrl && normalizeUrl(remoteUrl) === normalizeUrl(baseUrl)
RemoteMatches(remoteUrl, baseUrl) ==
    remoteUrl # NoUrl /\ NormalizeUrl(remoteUrl) = NormalizeUrl(baseUrl)

\* A directory under os.tmpdir(): absent; empty; partial (the git clone of
\* caller `by` is running in it); repo (a clone, with its origin, NoUrl when
\* it has none); junk (files, no git repository).
WorkDir(st, origin, by) == [st |-> st, origin |-> origin, by |-> by]

AbsentDir == WorkDir("absent", NoUrl, 0)

TempDirs == { TempDir(u) : u \in CallUrls }

\* what an earlier run, a hash collision or another program may have left
StaleDirs ==
    { WorkDir("junk", NoUrl, 0), WorkDir("repo", NoUrl, 0),
      WorkDir("repo", <<"R2">>, 0), WorkDir("repo", <<"R1", ".git">>, 0) }

Callers == {1, 2}

\* Bound: cloneRepository calls in all
MaxCloneCalls == 2

NoJob ==
    [pc |-> "idle", url |-> NoUrl, ret |-> NoUrl, log |-> <<>>,
     found |-> AbsentDir, alone |-> FALSE, second |-> FALSE]

Finished(c) == job[c].pc \in {"idle", "returned", "raised"}

ClonerAtRest ==
    /\ tmpDirs = [d \in TempDirs |-> AbsentDir]
    /\ job = [c \in Callers |-> NoJob]
    /\ cloneCalls = 0
    /\ lastReturned = NoUrl

----------------------------------------------------------------------------
Idle(r) == pc[r] \in {"idle", "done", "failed"}

Log(r, e) == trace' = [trace EXCEPT ![r] = Append(@, e)]

HasIn(t, e) == \E i \in 1..Len(t) : t[i] = e

Has(r, e) == HasIn(trace[r], e)

Pos(r, e) == CHOOSE i \in 1..Len(trace[r]) : trace[r][i] = e /\ \A j \in 1..(i - 1) : trace[r][j] # e

\* in the current call of r, a happened and b did not happen before it
Precedes(r, a, b) == Has(r, a) /\ (Has(r, b) => Pos(r, a) < Pos(r, b))

Goto(r, p) == pc' = [pc EXCEPT ![r] = p]

\* what the ingesters were built with
toolVars == <<proc, remote, objects, cm>>

walkVars == <<workdir, query, maxResults, searched, rendered, blob, remoteTree>>

facadeVars == <<ingester, op, opCalls>>

config == <<branch, tmpDirs, job, cloneCalls, lastReturned, written, request, extracted,
            walkVars, facadeVars, toolVars>>

pipelineVars == <<now, branch, dir, file, pc, calls, snap, analyzer,
                  repoPath, before, trace>>

clonerVars == <<tmpDirs, job, cloneCalls, lastReturned>>

extractorVars == <<written, request, extracted>>

ExtractorAtRest == written = <<>> /\ request = <<>> /\ extracted = <<>>

WalkAtRest ==
    /\ workdir = <<>>
    /\ query = ""
    /\ maxResults = 0
    /\ searched = <<>>
    /\ rendered = <<>>
    /\ blob = <<>>
    /\ remoteTree = <<>>

NoOp == [kind |-> "none", pc |-> "idle", base |-> "", head |-> "", log |-> <<>>,
         ret |-> <<>>]

NoProc == [mode |-> "none", pc |-> "none", timer |-> FALSE, handlers |-> FALSE,
           onclose |-> FALSE, cleaned |-> FALSE, beats |-> 0, log |-> <<>>]

\* no fetchRepoData call of the fallback model
NoRemote == [pc |-> "none"]

\* getFilesAsObjects was not called
NoObjects == [called |-> FALSE, files |-> <<>>]

\* no CacheManager call of the cache model
NoCm == [pc |-> "none"]

ToolsAtRest == proc = NoProc /\ remote = NoRemote /\ objects = NoObjects /\ cm = NoCm

FacadeAtRest ==
    /\ ingester = [repoPath |-> FALSE, searcher |-> FALSE, differ |-> FALSE]
    /\ op = NoOp
    /\ opCalls = 0

PipelineAtRest ==
    /\ now = 0
    /\ dir = Dir("absent")
    /\ file = NoFile
    /\ pc = [r \in Requests |-> "idle"]
    /\ calls = [r \in Requests |-> 0]
    /\ snap = [r \in Requests |-> NullSnap]
    /\ analyzer = [r \in Requests |-> FALSE]
    /\ repoPath = [r \in Requests |-> FALSE]
    /\ before = [r \in Requests |-> NullSnap]
    /\ trace = [r \in Requests |-> <<>>]

Init ==
    /\ PipelineAtRest
    /\ ToolsAtRest
    /\ branch \in BOOLEAN
    /\ ClonerAtRest
    /\ ExtractorAtRest
    /\ WalkAtRest
    /\ FacadeAtRest

\* time passes
Tick ==
    /\ \E t \in Instants : t > now /\ now' = t
    /\ UNCHANGED <<config, dir, file, pc, calls, snap, analyzer,
                   repoPath, before, trace>>

TotalCalls == calls[1] + calls[2]

\* fetchRepoData is called
Start(r) ==
    /\ Idle(r)
    /\ TotalCalls < MaxCalls
    /\ calls' = [calls EXCEPT ![r] = @ + 1]
    /\ before' = [before EXCEPT ![r] = snap[r]]
    /\ trace' = [trace EXCEPT ![r] = <<>>]
    /\ Goto(r, "load_stat")
    /\ UNCHANGED <<now, config, dir, file, snap, analyzer, repoPath>>

\* mutant: loadFromCache lets the error out
OnReadError_Rethrows == "raise"

\* loadFromCache: catch (_) { return null }
OnReadError == "null"

\* mutant: a miss goes straight to the remote fallback
MissPath_Remote == "remote"

\* fetchRepoData: the miss path starts with this.cloner.cloneRepository(this.url)
MissPath == "clone_stat"

\* loadFromCache, first await: fs.stat(cacheFile) and the expiry test
LoadStat(r) ==
    /\ pc[r] = "load_stat"
    /\ IF ~file.exists
       THEN /\ Goto(r, MissPath)
            /\ trace' = [trace EXCEPT ![r] =
                            @ \o <<"load", IF OnReadError = "null" THEN "miss_absent" ELSE "load_raised">>]
       ELSE IF Expired(file.mtime)
       THEN /\ Goto(r, MissPath)
            /\ trace' = [trace EXCEPT ![r] = @ \o <<"load", "miss_expired">>]
       ELSE /\ Goto(r, "load_read")
            /\ trace' = [trace EXCEPT ![r] = @ \o <<"load">>]
    /\ UNCHANGED <<now, config, dir, file, calls, snap, analyzer, repoPath, before>>

\* loadFromCache, second await: fs.readFile(cacheFile) and JSON.parse; then the
\* if (cachedData) of fetchRepoData.  ioerr: the file cannot be read.
LoadRead(r) ==
    /\ pc[r] = "load_read"
    /\ \E ioerr \in BOOLEAN :
         LET parsed == JSONParse(file.body)
             why == IF ~file.exists \/ ioerr THEN "miss_unreadable" ELSE "miss_corrupt"
         IN IF file.exists /\ ~ioerr /\ parsed.ok
            THEN /\ snap' = [snap EXCEPT ![r] = FromCache(parsed.entry)]
                 /\ Goto(r, "done")
                 /\ Log(r, "hit")
            ELSE /\ snap' = snap
                 /\ Goto(r, MissPath)
                 /\ Log(r, IF OnReadError = "null" THEN why ELSE "load_raised")
    /\ UNCHANGED <<now, config, dir, file, calls, analyzer, repoPath, before>>

\* cloneRepository returns tempDir; fetchRepoData builds the context, the
\* analyzer, the searcher and the differ
Cloned(r) ==
    /\ repoPath' = [repoPath EXCEPT ![r] = TRUE]
    /\ analyzer' = [analyzer EXCEPT ![r] = TRUE]
    /\ Goto(r, "scan_tree")
    /\ Log(r, "cloned")

\* cloneRepository: fs.stat(tempDir).catch(() => false)
CloneStat(r) ==
    /\ pc[r] = "clone_stat"
    /\ Goto(r, IF dir.st = "absent" THEN "clone_mkdir" ELSE "clone_remotes")
    /\ Log(r, "clone")
    /\ UNCHANGED <<now, config, dir, file, calls, snap, analyzer, repoPath, before>>

\* cloneRepository: simpleGit(tempDir).getRemotes(true) and the comparison of
\* the origin with the base URL.  A directory a clone is running in may or may
\* not already answer with its origin.
CloneRemotes(r) ==
    /\ pc[r] = "clone_remotes"
    /\ \E answers \in BOOLEAN :
         LET matches == dir.st = "repo" \/ (dir.st = "partial" /\ answers)
             throws  == dir.st \in {"absent", "empty", "junk"} \/ (dir.st = "partial" /\ ~answers)
         IN IF matches /\ ~branch
            THEN Cloned(r)
            ELSE /\ Goto(r, IF matches THEN "clone_fetch"
                            ELSE IF throws THEN "clone_rm_stale"
                            ELSE "clone_mkdir")
                 /\ UNCHANGED <<analyzer, repoPath, trace>>
    /\ UNCHANGED <<now, config, dir, file, calls, snap, before>>

\* cloneRepository, reuse with a branch: localGit.fetch('origin'); a failure
\* is caught by the catch around the reuse
CloneFetch(r) ==
    /\ pc[r] = "clone_fetch"
    /\ \E ok \in BOOLEAN :
         Goto(r, IF ok /\ dir.st # "absent" THEN "clone_checkout_reuse" ELSE "clone_rm_stale")
    /\ UNCHANGED <<now, config, dir, file, calls, snap, analyzer, repoPath, before, trace>>

\* mutant: the checkout waits while another request scans the directory
CloneCheckoutReuse_Locked(r) ==
    /\ pc[r] = "clone_checkout_reuse"
    /\ \A o \in Requests \ {r} : pc[o] \notin {"scan_tree", "scan_count", "scan_read"}
    /\ Cloned(r)
    /\ UNCHANGED <<now, config, dir, file, calls, snap, before>>

\* cloneRepository, reuse with a branch: localGit.checkout(branch), an error
\* is logged; return tempDir
CloneCheckoutReuse(r) ==
    /\ pc[r] = "clone_checkout_reuse"
    /\ Cloned(r)
    /\ UNCHANGED <<now, config, dir, file, calls, snap, before>>

\* cloneRepository: catch around the reuse: rm(tempDir, {recursive, force})
CloneRmStale(r) ==
    /\ pc[r] = "clone_rm_stale"
    /\ dir' = Dir("absent")
    /\ Goto(r, "clone_mkdir")
    /\ UNCHANGED <<now, config, file, calls, snap, analyzer, repoPath, before, trace>>

\* cloneRepository: fs.mkdir(tempDir, {recursive: true}), outside the try
CloneMkdir(r) ==
    /\ pc[r] = "clone_mkdir"
    /\ \E ok \in BOOLEAN :
         IF ok \/ dir.st # "absent"
         THEN /\ dir' = IF dir.st = "absent" THEN Dir("empty") ELSE dir
              /\ Goto(r, "clone_begin")
              /\ UNCHANGED trace
         ELSE /\ dir' = dir
              /\ Goto(r, "remote")
              /\ Log(r, "mkdir_failed")
    /\ UNCHANGED <<now, config, file, calls, snap, analyzer, repoPath, before>>

\* cloneRepository: git.clone(baseUrl, tempDir) starts; git refuses a
\* directory that is not empty
CloneBegin(r) ==
    /\ pc[r] = "clone_begin"
    /\ IF dir.st \in {"absent", "empty"}
       THEN /\ dir' = Partial(r)
            /\ Goto(r, "clone_end")
       ELSE /\ dir' = dir
            /\ Goto(r, "clone_cleanup")
    /\ UNCHANGED <<now, config, file, calls, snap, analyzer, repoPath, before, trace>>

\* cloneRepository: git.clone ends; it fails when the network fails or when
\* the directory was taken away under it
CloneEnd(r) ==
    /\ pc[r] = "clone_end"
    /\ \E ok \in BOOLEAN :
         IF ok /\ dir = Partial(r)
         THEN /\ dir' = Dir("repo")
              /\ IF branch
                 THEN Goto(r, "clone_checkout") /\ UNCHANGED <<analyzer, repoPath, trace>>
                 ELSE Cloned(r)
         ELSE /\ dir' = dir
              /\ Goto(r, "clone_cleanup")
              /\ UNCHANGED <<analyzer, repoPath, trace>>
    /\ UNCHANGED <<now, config, file, calls, snap, before>>

\* cloneRepository, fresh clone with a branch: localGit.checkout(branch)
CloneCheckout(r) ==
    /\ pc[r] = "clone_checkout"
    /\ \E ok \in BOOLEAN :
         IF ok /\ dir.st = "repo"
         THEN Cloned(r)
         ELSE Goto(r, "clone_cleanup") /\ UNCHANGED <<analyzer, repoPath, trace>>
    /\ UNCHANGED <<now, config, dir, file, calls, snap, before>>

\* mutant: the catch throws without removing the directory
CloneCleanup_KeepsDir(r) ==
    /\ pc[r] = "clone_cleanup"
    /\ Goto(r, "remote")
    /\ Log(r, "clone_failed")
    /\ UNCHANGED <<now, config, dir, file, calls, snap, analyzer, repoPath, before>>

\* cloneRepository: catch of the fresh clone: rm(tempDir), then throw
CloneCleanup(r) ==
    /\ pc[r] = "clone_cleanup"
    /\ dir' = Dir("absent")
    /\ Goto(r, "remote")
    /\ Log(r, "clone_failed")
    /\ UNCHANGED <<now, config, file, calls, snap, analyzer, repoPath, before>>

\* fetchRepoData: catch (error) of the clone-and-scan try: the fallback
ScanThrows(r) ==
    /\ Goto(r, "remote")
    /\ Log(r, "scan_failed")
    /\ UNCHANGED snap

\* fetchRepoData: this.tree = await this.analyzer.generateDirectoryTree(repoPath);
\* fs.readdir throws when the directory is gone
GenerateDirectoryTree(r) ==
    /\ pc[r] = "scan_tree"
    /\ IF dir.st = "absent"
       THEN ScanThrows(r)
       ELSE /\ snap' = [snap EXCEPT ![r].tree = TreeOfScan(r)]
            /\ Goto(r, "scan_count")
            /\ UNCHANGED trace
    /\ UNCHANGED <<now, config, dir, file, calls, analyzer, repoPath, before>>

\* fetchRepoData: countFiles, extractRepoName, this.summary = parseSummary(...)
CountFiles(r) ==
    /\ pc[r] = "scan_count"
    /\ IF dir.st = "absent"
       THEN ScanThrows(r)
       ELSE /\ snap' = [snap EXCEPT ![r].summary = SummaryOfScan(r)]
            /\ Goto(r, "scan_read")
            /\ UNCHANGED trace
    /\ UNCHANGED <<now, config, dir, file, calls, analyzer, repoPath, before>>

\* fetchRepoData: this.content = await this.analyzer.readRepositoryContent(repoPath);
\* then githubAPI.fetchMetadata in its own try (meta: it succeeded; an error is
\* logged), then saveToCache is called
ReadRepositoryContent(r) ==
    /\ pc[r] = "scan_read"
    /\ IF dir.st = "absent"
       THEN ScanThrows(r)
       ELSE /\ \E meta \in BOOLEAN :
                 snap' = [snap EXCEPT ![r].content = ContentOfScan(r),
                                      ![r].summary = IF meta THEN Enrich(@) ELSE @]
            /\ Goto(r, "save_open")
            /\ trace' = [trace EXCEPT ![r] = @ \o <<"scanned", "save">>]
    /\ UNCHANGED <<now, config, dir, file, calls, analyzer, repoPath, before>>

\* mutant: the fallback returns without saving to the cache
FetchFromRemote_NoSave(r) ==
    /\ pc[r] = "remote"
    /\ \E ok \in BOOLEAN :
         IF ok
         THEN /\ snap' = [snap EXCEPT ![r] = RemoteData(r)]
              /\ Goto(r, "done")
              /\ trace' = [trace EXCEPT ![r] = @ \o <<"remote", "fetched">>]
         ELSE /\ Goto(r, "failed")
              /\ trace' = [trace EXCEPT ![r] = @ \o <<"remote", "remote_failed">>]
              /\ UNCHANGED snap
    /\ UNCHANGED <<now, config, dir, file, calls, analyzer, repoPath, before>>

\* fetchFromRemote: githubAPI.fetchRepositoryData; on success the three
\* assignments, then saveToCache is called; on failure the error is rethrown
\* and fetchRepoData fails
FetchFromRemote(r) ==
    /\ pc[r] = "remote"
    /\ \E ok \in BOOLEAN :
         IF ok
         THEN /\ snap' = [snap EXCEPT ![r] = RemoteData(r)]
                        /\ Goto(r, "save_open")
              /\ trace' = [trace EXCEPT ![r] = @ \o <<"remote", "fetched", "save">>]
         ELSE /\ Goto(r, "failed")
              /\ trace' = [trace EXCEPT ![r] = @ \o <<"remote", "remote_failed">>]
              /\ UNCHANGED snap
    /\ UNCHANGED <<now, config, dir, file, calls, analyzer, repoPath, before>>

\* mutant: saveToCache lets the error out; on the clone path the catch of
\* fetchRepoData takes it for a clone failure, on the fallback path the inner
\* try logs it
SaveError_Rethrows(r) ==
    /\ Goto(r, IF HasIn(trace[r], "fetched") THEN "done" ELSE "remote")
    /\ Log(r, "save_error")

\* saveToCache: catch (error) { this.logger.error(...) }: the call returns
SaveError(r) ==
    /\ Goto(r, "done")
    /\ Log(r, "save_error")

\* saveToCache: fs.mkdir(this.cacheDir, {recursive: true}), then fs.writeFile
\* opens the file with flag 'w', which truncates it
SaveOpen(r) ==
    /\ pc[r] = "save_open"
    /\ \E ok \in BOOLEAN :
         IF ok
         THEN /\ file' = [exists |-> TRUE, mtime |-> now,
                          body |-> [kind |-> "empty", entry |-> NoEntry]]
              /\ Goto(r, "save_write")
              /\ UNCHANGED trace
         ELSE /\ file' = file
              /\ SaveError(r)
    /\ UNCHANGED <<now, config, dir, calls, snap, analyzer, repoPath, before>>

\* two JSON documents written through two descriptors over each other: the
\* documents a reader can parse out of the result
Mixes(a, b) ==
    { [summary |-> x.summary, tree |-> x.tree, content |-> y.content]
        : <<x, y>> \in {<<a, b>>, <<b, a>>} }

\* the text in the file after `mine` has been written from offset 0 while the
\* file already held `there`, written through another descriptor since this
\* one truncated the file
Overwritten(mine, there) ==
    IF there.kind = "empty" THEN {JSONStringify(mine)}
    ELSE {JSONStringify(mine), [kind |-> "garbage", entry |-> NoEntry]}
         \cup (IF there.kind = "json"
               THEN {JSONStringify(e) : e \in Mixes(mine, there.entry)}
               ELSE {})

\* saveToCache: fs.writeFile writes JSON.stringify(data) and closes
SaveWrite(r) ==
    /\ pc[r] = "save_write"
    /\ \E ok \in BOOLEAN :
         IF ok
         THEN /\ \E b \in Overwritten(EntryOf(snap[r]), file.body) :
                    file' = [exists |-> TRUE, mtime |-> now, body |-> b]
              /\ Goto(r, "done")
              /\ Log(r, "saved")
         ELSE /\ file' = file
              /\ SaveError(r)
    /\ UNCHANGED <<now, config, dir, calls, snap, analyzer, repoPath, before>>

Next ==
    \/ Tick
    \/ \E r \in Requests :
         \/ Start(r)
         \/ LoadStat(r)
         \/ LoadRead(r)
         \/ CloneStat(r)
         \/ CloneRemotes(r)
         \/ CloneFetch(r)
         \/ CloneCheckoutReuse(r)
         \/ CloneRmStale(r)
         \/ CloneMkdir(r)
         \/ CloneBegin(r)
         \/ CloneEnd(r)
         \/ CloneCheckout(r)
         \/ CloneCleanup(r)
         \/ GenerateDirectoryTree(r)
         \/ CountFiles(r)
         \/ ReadRepositoryContent(r)
         \/ FetchFromRemote(r)
         \/ SaveOpen(r)
         \/ SaveWrite(r)

Spec == Init /\ [][Next]_vars

----------------------------------------------------------------------------
\* RepositoryCloner.cloneRepository(url), by URL: two callers, the directories
\* of all the urls, and what may lie in them beforehand.

ClonerInit ==
    /\ PipelineAtRest
    /\ ToolsAtRest
    /\ branch = FALSE
    /\ ExtractorAtRest
    /\ WalkAtRest
    /\ FacadeAtRest
    /\ job = [c \in Callers |-> NoJob]
    /\ cloneCalls = 0
    /\ lastReturned = NoUrl
    /\ \/ tmpDirs = [d \in TempDirs |-> AbsentDir]
       \/ \E at \in TempDirs, stale \in StaleDirs :
            tmpDirs = [d \in TempDirs |-> IF d = at THEN stale ELSE AbsentDir]

Here(c) == tmpDirs[TempDir(job[c].url)]

SetHere(c, d) == tmpDirs' = [tmpDirs EXCEPT ![TempDir(job[c].url)] = d]

Step(c, to, events) ==
    job' = [job EXCEPT ![c].pc = to, ![c].log = @ \o events]

\* return tempDir
Return(c, events) ==
    /\ job' = [job EXCEPT ![c].pc = "returned", ![c].log = @ \o events,
                          ![c].ret = TempDir(job[c].url)]
    /\ lastReturned' = job[c].url

\* cloneRepository is called: tempDir, baseUrl and branch are computed
CrCall(c) ==
    /\ Finished(c)
    /\ cloneCalls < MaxCloneCalls
    /\ cloneCalls' = cloneCalls + 1
    /\ \E u \in CallUrls :
         LET quiet == \A d \in Callers \ {c} : Finished(d)
         IN job' = [d \in Callers |->
                      IF d = c
                      THEN [pc |-> "stat", url |-> u, ret |-> NoUrl, log |-> <<>>,
                            found |-> tmpDirs[TempDir(u)], alone |-> quiet,
                            second |-> quiet /\ lastReturned = u]
                      ELSE IF Finished(d) THEN job[d]
                      ELSE [job[d] EXCEPT !.alone = FALSE, !.second = FALSE]]
    /\ UNCHANGED <<tmpDirs, lastReturned, pipelineVars, toolVars, extractorVars, walkVars, facadeVars>>

\* fs.stat(tempDir).catch(() => false)
CrStat(c) ==
    /\ job[c].pc = "stat"
    /\ Step(c, IF Here(c).st = "absent" THEN "mkdir" ELSE "remotes", <<>>)
    /\ UNCHANGED <<tmpDirs, cloneCalls, lastReturned, pipelineVars, toolVars, extractorVars, walkVars, facadeVars>>

\* git.getRemotes(true), the origin's fetch url against the base url.  Git
\* fails outside a repository; where a clone is running it may already answer.
CrGetRemotes(c) ==
    /\ job[c].pc = "remotes"
    /\ \E answers \in BOOLEAN :
         LET d == Here(c)
             reads == d.st = "repo" \/ (d.st = "partial" /\ answers)
             base == ExtractBaseUrl(job[c].url)
         IN IF ~reads
            THEN Step(c, "rm_stale", <<"remotes_failed">>) /\ UNCHANGED lastReturned
            ELSE IF ~RemoteMatches(d.origin, base)
            THEN Step(c, "mkdir", <<"mismatch">>) /\ UNCHANGED lastReturned
            ELSE IF ExtractBranch(job[c].url) # NoBranch
            THEN Step(c, "fetch", <<"reuse">>) /\ UNCHANGED lastReturned
            ELSE Return(c, <<"reuse">>)
    /\ UNCHANGED <<tmpDirs, cloneCalls, pipelineVars, toolVars, extractorVars, walkVars, facadeVars>>

\* reuse with a branch: localGit.fetch('origin'); its failure is caught by
\* the catch around the reuse
CrFetch(c) ==
    /\ job[c].pc = "fetch"
    /\ \E ok \in BOOLEAN :
         IF ok /\ Here(c).st \in {"repo", "partial"}
         THEN Step(c, "checkout_reuse", <<>>)
         ELSE Step(c, "rm_stale", <<"fetch_failed">>)
    /\ UNCHANGED <<tmpDirs, cloneCalls, lastReturned, pipelineVars, toolVars, extractorVars, walkVars, facadeVars>>

\* mutant: a failing checkout on reuse is taken for an error of the directory
CrCheckoutReuse_Strict(c) ==
    /\ job[c].pc = "checkout_reuse"
    /\ \E ok \in BOOLEAN :
         IF ok /\ Here(c).st = "repo"
         THEN Return(c, <<>>)
         ELSE Step(c, "rm_stale", <<"reuse_checkout_failed">>) /\ UNCHANGED lastReturned
    /\ UNCHANGED <<tmpDirs, cloneCalls, pipelineVars, toolVars, extractorVars, walkVars, facadeVars>>

\* reuse with a branch: localGit.checkout(branch) in its own try, the error
\* logged; return tempDir
CrCheckoutReuse(c) ==
    /\ job[c].pc = "checkout_reuse"
    /\ \E ok \in BOOLEAN :
         Return(c, IF ok /\ Here(c).st = "repo" THEN <<>> ELSE <<"reuse_checkout_failed">>)
    /\ UNCHANGED <<tmpDirs, cloneCalls, pipelineVars, toolVars, extractorVars, walkVars, facadeVars>>

\* catch around the reuse: rm(tempDir, {recursive: true, force: true})
CrRmStale(c) ==
    /\ job[c].pc = "rm_stale"
    /\ SetHere(c, AbsentDir)
    /\ Step(c, "mkdir", <<"rm_stale">>)
    /\ UNCHANGED <<cloneCalls, lastReturned, pipelineVars, toolVars, extractorVars, walkVars, facadeVars>>

\* fs.mkdir(tempDir, {recursive: true}), outside the try: its error leaves
\* cloneRepository as it is
CrMkdir(c) ==
    /\ job[c].pc = "mkdir"
    /\ \E ok \in BOOLEAN :
         IF ok \/ Here(c).st # "absent"
         THEN /\ SetHere(c, IF Here(c).st = "absent" THEN WorkDir("empty", NoUrl, 0) ELSE Here(c))
              /\ Step(c, "clone", <<>>)
              /\ UNCHANGED lastReturned
         ELSE /\ UNCHANGED tmpDirs
              /\ Step(c, "raised", <<"mkdir_failed">>)
              /\ lastReturned' = NoUrl
    /\ UNCHANGED <<cloneCalls, pipelineVars, toolVars, extractorVars, walkVars, facadeVars>>

\* git.clone(baseUrl, tempDir) starts: git refuses a destination that exists
\* and is not an empty directory
CrClone(c) ==
    /\ job[c].pc = "clone"
    /\ IF Here(c).st \in {"absent", "empty"}
       THEN /\ SetHere(c, WorkDir("partial", ExtractBaseUrl(job[c].url), c))
            /\ Step(c, "clone_end", <<"clone">>)
       ELSE /\ UNCHANGED tmpDirs
            /\ Step(c, "cleanup", <<"clone", "not_empty">>)
    /\ UNCHANGED <<cloneCalls, lastReturned, pipelineVars, toolVars, extractorVars, walkVars, facadeVars>>

\* git.clone ends: it fails when the transport fails or the directory was
\* taken from under it
CrCloneEnd(c) ==
    /\ job[c].pc = "clone_end"
    /\ \E ok \in BOOLEAN :
         LET base == ExtractBaseUrl(job[c].url)
         IN IF ok /\ Here(c) = WorkDir("partial", base, c)
            THEN /\ SetHere(c, WorkDir("repo", base, 0))
                 /\ IF ExtractBranch(job[c].url) # NoBranch
                    THEN Step(c, "checkout", <<>>) /\ UNCHANGED lastReturned
                    ELSE Return(c, <<>>)
            ELSE /\ UNCHANGED <<tmpDirs, lastReturned>>
                 /\ Step(c, "cleanup", <<"transport_failed">>)
    /\ UNCHANGED <<cloneCalls, pipelineVars, toolVars, extractorVars, walkVars, facadeVars>>

\* fresh clone with a branch: localGit.checkout(branch); return tempDir
CrCheckout(c) ==
    /\ job[c].pc = "checkout"
    /\ \E ok \in BOOLEAN :
         IF ok /\ Here(c).st = "repo"
         THEN Return(c, <<>>)
         ELSE Step(c, "cleanup", <<"checkout_failed">>) /\ UNCHANGED lastReturned
    /\ UNCHANGED <<tmpDirs, cloneCalls, pipelineVars, toolVars, extractorVars, walkVars, facadeVars>>

\* catch of the fresh clone: rm(tempDir, ...), throw new Error(...)
CrCleanup(c) ==
    /\ job[c].pc = "cleanup"
    /\ SetHere(c, AbsentDir)
    /\ Step(c, "raised", <<"cleanup">>)
    /\ lastReturned' = NoUrl
    /\ UNCHANGED <<cloneCalls, pipelineVars, toolVars, extractorVars, walkVars, facadeVars>>

ClonerNext ==
    \E c \in Callers :
        \/ CrCall(c)
        \/ CrStat(c)
        \/ CrGetRemotes(c)
        \/ CrFetch(c)
        \/ CrCheckoutReuse(c)
        \/ CrRmStale(c)
        \/ CrMkdir(c)
        \/ CrClone(c)
        \/ CrCloneEnd(c)
        \/ CrCheckout(c)
        \/ CrCleanup(c)

ClonerSpec == ClonerInit /\ [][ClonerNext]_vars

----------------------------------------------------------------------------
\* Concatenated content and its extraction.  A path is the sequence of its
\* segments; a text is the sequence of its lines (the string is the lines
\* joined by "\n", and the empty string is the empty sequence).

\* "=" fifty times
SepLine == <<"=", <<>>>>

\* `File: ${path}`
FileLine(path) == <<"File", path>>

TextLine(str) == <<"text", <<str>>>>

BlankLine == TextLine("")

File(path, body) == [path |-> path, body |-> body]

\* the files of the repository, in the order the scan writes their blocks
RepoFiles ==
    << File(<<"README.md">>, <<TextLine("# Hello")>>),
       File(<<"src", "a.ts">>, <<TextLine("x=1")>>) >>

\* GitHubAPI.fetchRepositoryData: importantFiles
ImportantFiles == { <<"README.md">>, <<"package.json">>, <<"pyproject.toml">>, <<".gitignore">> }

\* the requests for files
PathLists == { << <<"README.md">> >>, << <<"src", "a.ts">>, <<"README.md">> >>,
               << <<"a.ts">> >>, << <<"missing.txt">> >> }

\* readRepositoryContent, processFile: the three marker lines, fileContent,
\* '\n\n'; the blocks follow one another in the order of the walk
RECURSIVE ConcatenatedContent(_)
ConcatenatedContent(files) ==
    IF files = <<>> THEN <<>>
    ELSE LET f == files[Len(files)]
             before_ == ConcatenatedContent(SubSeq(files, 1, Len(files) - 1))
             head == IF before_ = <<>> THEN <<>> ELSE SubSeq(before_, 1, Len(before_) - 1)
         IN head \o <<SepLine, FileLine(f.path), SepLine>>
                 \o (IF f.body = <<>> THEN <<BlankLine>> ELSE f.body)
                 \o <<BlankLine, BlankLine>>

\* the content a snapshot holds: the scan writes every file, the fallback the
\* important files it finds
TextOf(c) ==
    IF c[1] = "scan" THEN ConcatenatedContent(RepoFiles)
    ELSE IF c[1] = "remote"
    THEN ConcatenatedContent(SelectSeq(RepoFiles, LAMBDA f : f.path \in ImportantFiles))
    ELSE <<>>

\* /={50}\nFile: ([^\n]+)\n={50}/ matches at line i
MarkerAt(text, i) ==
    /\ i + 2 <= Len(text)
    /\ text[i] = SepLine
    /\ text[i + 1][1] = "File"
    /\ text[i + 2] = SepLine

\* pattern.exec in turn, each search starting where the last match ended
RECURSIVE MarkersFrom(_, _)
MarkersFrom(text, i) ==
    IF i > Len(text) THEN <<>>
    ELSE IF MarkerAt(text, i) THEN <<i>> \o MarkersFrom(text, i + 3)
    ELSE MarkersFrom(text, i + 1)

\* String.prototype.trim, on whole lines
Trim(lines) ==
    LET inked == {i \in 1..Len(lines) : lines[i] # BlankLine}
    IN IF inked = {} THEN <<>>
       ELSE SubSeq(lines, CHOOSE i \in inked : \A j \in inked : i <= j,
                          CHOOSE i \in inked : \A j \in inked : j <= i)

\* extractFilesContent: filename and fileContent of every match, the content
\* running to the next match or to the end.  (The two looser patterns are
\* tried only when the first finds nothing; no text here has their markers.)
BlocksOf(text) ==
    LET ms == MarkersFrom(text, 1)
    IN [k \in 1..Len(ms) |->
          [filename |-> text[ms[k] + 1][2],
           content |-> Trim(SubSeq(text, ms[k] + 3,
                                   (IF k < Len(ms) THEN ms[k + 1] ELSE Len(text) + 1) - 1))]]

\* mutant: only the path itself matches
Matches_ExactOnly(p, f) == p = f

\* extractFilesContent: path === filename || basename === filename ||
\* path.endsWith('/' + filename)
Matches(p, f) ==
    \/ p = f
    \/ <<p[Len(p)]>> = f
    \/ Len(f) < Len(p) /\ SubSeq(p, Len(p) - Len(f) + 1, Len(p)) = f

\* result[path] = null
Null == << <<"null", <<>>>> >>

\* extractFilesContent: result after the loop: for every requested path the
\* content of the last block that matches it
ResultOf(text, paths) ==
    LET bs == BlocksOf(text)
        hits(p) == {k \in 1..Len(bs) : Matches(p, bs[k].filename)}
    IN [p \in {paths[i] : i \in 1..Len(paths)} |->
          IF hits(p) = {} THEN Null
          ELSE bs[CHOOSE k \in hits(p) : \A j \in hits(p) : j <= k].content]

\* a property name that is an array index ("7", "10") and its value
IsArrayIndex(p) == Len(p) = 1 /\ p[1] \in {"7", "10"}

IndexValue(p) == IF p[1] = "7" THEN 7 ELSE 10

RECURSIVE Ascending(_)
Ascending(keys) ==
    IF keys = {} THEN <<>>
    ELSE LET m == CHOOSE x \in keys : \A y \in keys : IndexValue(x) <= IndexValue(y)
         IN <<m>> \o Ascending(keys \ {m})

RECURSIVE InsertionOrder(_)
InsertionOrder(paths) ==
    IF paths = <<>> THEN <<>>
    ELSE LET r == InsertionOrder(SubSeq(paths, 1, Len(paths) - 1))
             p == paths[Len(paths)]
         IN IF \E i \in 1..Len(r) : r[i] = p THEN r ELSE Append(r, p)

\* Object.entries(result): the array-index keys in ascending order, then the
\* other keys in the order of their creation by filePaths.forEach
ObjectEntries(paths) ==
    Ascending({paths[i] : i \in {j \in 1..Len(paths) : IsArrayIndex(paths[j])}})
        \o SelectSeq(InsertionOrder(paths), LAMBDA p : ~IsArrayIndex(p))

\* extractFilesContent: "Build concatenated result"
RECURSIVE Concatenated(_, _)
Concatenated(result, keys) ==
    IF keys = <<>> THEN <<>>
    ELSE LET sofar == Concatenated(result, SubSeq(keys, 1, Len(keys) - 1))
             p == keys[Len(keys)]
         IN IF result[p] = Null THEN sofar
            ELSE (IF sofar = <<>> THEN <<>> ELSE sofar \o <<BlankLine>>)
                    \o <<SepLine, FileLine(p), SepLine>>
                    \o (IF result[p] = <<>> THEN <<BlankLine>> ELSE result[p])

\* RepositoryAnalyzer.extractFilesContent
ExtractFilesContent(content, filePaths) ==
    IF content = <<>> THEN <<>>
    ELSE Concatenated(ResultOf(content, filePaths), ObjectEntries(filePaths))

\* GitIngester.getFilesContent
GetFilesContent(r, paths) ==
    IF snap[r].content = NULL \/ ~analyzer[r] THEN <<>>
    ELSE ExtractFilesContent(TextOf(snap[r].content), paths)

----------------------------------------------------------------------------
\* extractFilesContent over what readRepositoryContent writes: the files and
\* the request are drawn at the start, then the extraction is applied to the
\* content and once more to its own result.

FilePaths == { <<"main.py">>, <<"app", "main.py">>, <<"7">> }

\* file contents: one line; a line and a final newline; text that quotes a
\* marker of the content format
Bodies ==
    { <<TextLine("x=1")>>,
      <<TextLine("# Hello"), BlankLine>>,
      <<TextLine("see"), SepLine, FileLine(<<"main.py">>), SepLine, TextLine("old")>> }

RequestPaths == FilePaths \cup { <<"missing.txt">> }

\* Bounds: files in the repository, paths in a request
MaxFiles == 2

MaxPaths == 2

SeqsUpTo(S, n) == UNION { [1..k -> S] : k \in 0..n }

\* fs.readdir gives the entries in no particular order
FileLists ==
    { fs \in SeqsUpTo({ File(p, b) : p \in FilePaths, b \in Bodies }, MaxFiles) :
        \A i, j \in 1..Len(fs) : i # j => fs[i].path # fs[j].path }

ExtractorInit ==
    /\ PipelineAtRest
    /\ ToolsAtRest
    /\ branch = FALSE
    /\ ClonerAtRest
    /\ WalkAtRest
    /\ FacadeAtRest
    /\ written \in FileLists
    /\ request \in SeqsUpTo(RequestPaths, MaxPaths)
    /\ extracted = <<>>

\* analyzer.extractFilesContent(this.content, filePaths) after a scan
Extract ==
    /\ extracted = <<>>
    /\ extracted' = <<ExtractFilesContent(ConcatenatedContent(written), request)>>
    /\ UNCHANGED <<written, request, pipelineVars, toolVars, clonerVars, walkVars, facadeVars>>

\* extractFilesContent on its own result, with the same paths
ExtractAgain ==
    /\ Len(extracted) = 1
    /\ extracted' = Append(extracted, ExtractFilesContent(extracted[1], request))
    /\ UNCHANGED <<written, request, pipelineVars, toolVars, clonerVars, walkVars, facadeVars>>

ExtractorNext == Extract \/ ExtractAgain

ExtractorSpec == ExtractorInit /\ [][ExtractorNext]_vars

----------------------------------------------------------------------------
\* Claims

SavePcs == {"save_open", "save_write"}

\* C1: a cache hit returns the stored summary, tree and content verbatim and
\* does nothing else in that request: no clone, no scan, no remote call, no
\* cache write.
C1_CacheHit ==
    [][\A r \in Requests :
         (pc[r] = "load_read" /\ pc'[r] = "done") =>
            /\ file.exists /\ file.body.kind = "json"
            /\ snap'[r].summary = file.body.entry.summary
            /\ snap'[r].tree = file.body.entry.tree
            /\ snap'[r].content = file.body.entry.content
            /\ file' = file /\ dir' = dir
            /\ trace'[r] = <<"load", "hit">>]_vars

C1_Witness ==
    \E r \in Requests :
        pc[r] = "done" /\ trace[r] = <<"load", "hit">> /\ snap[r].content # NULL

\* C2 as stated: when the fallback succeeded, fetchRepoData has written the
\* fallback snapshot to the cache by the time it returns.
C2_FallbackAlwaysCached ==
    [][\A r \in Requests :
         (Has(r, "fetched") /\ pc[r] \in SavePcs /\ pc'[r] = "done") =>
            (file'.exists /\ file'.body = JSONStringify(EntryOf(snap[r])))]_vars

\* C2 amended: after a successful fallback fetchRepoData calls saveToCache with
\* the fallback snapshot before it returns; a write that completes without an
\* error and without another write over it leaves exactly that snapshot in the
\* file, stamped with the current time; and a fetchRepoData that finds the file
\* within the expiry window goes on to read it, and when it is served from it
\* attempts neither a clone nor a remote call.
C2_FallbackCached ==
    /\ [](\A r \in Requests :
            (pc[r] = "done" /\ Has(r, "fetched")) => Precedes(r, "fetched", "save") /\ Has(r, "save"))
    /\ [][\A r \in Requests :
            /\ (Has(r, "fetched") /\ pc[r] = "save_write" /\ pc'[r] = "done"
                  /\ HasIn(trace'[r], "saved") /\ file.body.kind = "empty") =>
                  file' = [exists |-> TRUE, mtime |-> now,
                           body |-> JSONStringify(EntryOf(snap[r]))]
            /\ (pc[r] = "load_stat" /\ pc'[r] # "load_stat" /\ file.exists
                  /\ now - file.mtime <= CacheExpiry) => pc'[r] = "load_read"
            /\ (pc[r] = "load_read" /\ pc'[r] = "done") =>
                  /\ ~HasIn(trace'[r], "clone") /\ ~HasIn(trace'[r], "remote")
                  /\ snap'[r].content = file.body.entry.content]_vars

C2_Witness ==
    \E r \in Requests :
        pc[r] = "done" /\ Has(r, "hit") /\ snap[r].content[1] = "remote"

\* C3: after a successful fetchRepoData, getFilesContent(paths) is what
\* extractFilesContent makes of the snapshot's content and the paths,
\* whichever way the snapshot was obtained.
C3_FilesFromContent ==
    \A r \in Requests :
        pc[r] = "done" =>
            \A paths \in PathLists :
                GetFilesContent(r, paths) = ExtractFilesContent(TextOf(snap[r].content), paths)

\* C4: where fetchRepoData has returned, summary, tree and content come from
\* one cache entry, one scan or one fallback fetch; where it has thrown, the
\* three fields are what they were before the call.
C4_WholeOrUntouched ==
    \A r \in Requests :
        /\ pc[r] = "done" => (Has(r, "hit") \/ SameSource(snap[r]))
        /\ pc[r] = "failed" => snap[r] = before[r]

\* C5: in one fetchRepoData the cache is read before a clone is attempted, the
\* remote fallback is called only after the clone or the scan has failed, the
\* cache is written only after a scan or a fallback has produced a complete
\* snapshot, and a fetchRepoData that fails writes nothing to the cache.
C5_StepOrder ==
    /\ [](\A r \in Requests :
            /\ Has(r, "clone") => Precedes(r, "load", "clone")
            /\ Has(r, "remote") =>
                  \E e \in {"clone_failed", "mkdir_failed", "scan_failed"} :
                      Precedes(r, "clone", e) /\ Precedes(r, e, "remote")
            /\ Has(r, "save") =>
                  \E e \in {"scanned", "fetched"} : Precedes(r, e, "save")
            /\ pc[r] \in SavePcs => Has(r, "save") /\ SameSource(snap[r])
            /\ pc[r] = "failed" => ~Has(r, "save"))
    /\ [][\A r \in Requests :
            pc'[r] # pc[r] =>
               /\ file' # file => pc[r] \in SavePcs
               /\ dir' # dir => Has(r, "load") /\ Has(r, "clone")]_vars

C5_Witness ==
    \E r \in Requests :
        pc[r] = "done" /\ Has(r, "scan_failed") /\ Has(r, "saved")

\* C6: loadFromCache goes on to serve a file whose age is at most the
\* configured expiry (60 minutes by default) and treats an older one as
\* absent; what it serves is the entry in the file, unchanged.
C6_TTL ==
    [][\A r \in Requests :
         /\ (pc[r] = "load_stat" /\ pc'[r] # "load_stat" /\ file.exists) =>
               IF now - file.mtime > DefaultExpiryMinutes * MsPerMinute
               THEN pc'[r] = "clone_stat" /\ HasIn(trace'[r], "miss_expired")
               ELSE pc'[r] = "load_read"
         /\ (pc[r] = "load_read" /\ pc'[r] = "done") =>
               /\ EntryOf(snap'[r]) = file.body.entry
               /\ file' = file]_vars

C6_Witness ==
    \E r \in Requests :
        /\ pc[r] = "clone_stat" /\ Has(r, "miss_expired")
        /\ file.body.kind = "json" /\ now - file.mtime = CacheExpiry + 1

\* C7: loadFromCache answers null for a missing, unreadable, corrupt or expired
\* file and never raises; fetchRepoData then goes on to the miss path.
C7_LoadFailsSoft ==
    /\ [](\A r \in Requests : ~Has(r, "load_raised"))
    /\ [][\A r \in Requests :
            (pc[r] \in {"load_stat", "load_read"} /\ pc'[r] # pc[r]) =>
               /\ pc'[r] \in {"load_read", "clone_stat", "done"}
               /\ pc'[r] = "done" => file.exists /\ file.body.kind = "json"
               /\ (~file.exists \/ (pc[r] = "load_read" /\ file.body.kind # "json"))
                     => pc'[r] = "clone_stat"]_vars

C7_Witness ==
    \E r \in Requests : pc[r] = "clone_stat" /\ Has(r, "miss_corrupt")

\* C8: when saveToCache fails, fetchRepoData still returns, with the snapshot
\* the scan or the fallback produced.
C8_SaveFailsSoft ==
    \A r \in Requests :
        Has(r, "save_error") =>
            /\ pc[r] = "done"
            /\ SameSource(snap[r])
            /\ Has(r, "fetched") => snap[r] = RemoteData(r)
            /\ Has(r, "scanned") => snap[r].content = ContentOfScan(r)

C8_Witness ==
    /\ \E r \in Requests : pc[r] = "done" /\ Has(r, "save_error") /\ Has(r, "fetched")
    /\ \E r \in Requests : pc[r] = "done" /\ Has(r, "save_error") /\ Has(r, "scanned")

\* C9: whatever the interleaving of two requests that both miss, a request that
\* completes holds a whole snapshot, and when both have written the cache the
\* file holds exactly the snapshot of one of them (the later write), never a
\* mixture of the two and never a damaged document.
C9_NoCorruption ==
    /\ \A r \in Requests : pc[r] = "done" => (Has(r, "hit") \/ SameSource(snap[r]))
    /\ (\A r \in Requests : pc[r] = "done" /\ Has(r, "saved"))
         => /\ file.body.kind = "json"
            /\ \E q \in Requests : file.body.entry = EntryOf(snap[q])

Ends(c) == ~Finished(c) /\ job'[c].pc \in {"returned", "raised"}

\* C11: the second of two consecutive cloneRepository calls for one Reference
\* goes from the stat to the reuse and the return of the directory the first
\* call returned, and runs neither the removal nor a fresh clone.
C11_SecondCallReuses ==
    [][\A c \in Callers :
         (job[c].second /\ job'[c].second /\ job'[c] # job[c]) =>
            /\ job'[c].pc \in {"remotes", "fetch", "checkout_reuse", "returned"}
            /\ job'[c].pc = "returned" => job'[c].ret = TempDir(lastReturned)]_vars

\* C12: a call that finds a clone of another origin in its directory removes
\* it, clones afresh into the same path and returns it, unless the transport,
\* the checkout of the ref or the file system fails.
C12_MismatchRecloned ==
    [][\A c \in Callers :
         (Ends(c) /\ job[c].alone /\ job[c].found.st = "repo"
            /\ job[c].found.origin # NoUrl
            /\ ~RemoteMatches(job[c].found.origin, ExtractBaseUrl(job[c].url))) =>
            \/ /\ job'[c].pc = "returned"
               /\ tmpDirs'[TempDir(job[c].url)] = WorkDir("repo", ExtractBaseUrl(job[c].url), 0)
            \/ \E e \in {"transport_failed", "checkout_failed", "mkdir_failed"} :
                  HasIn(job'[c].log, e)]_vars

\* C13: the directory cloneRepository returns is the one of its url, and the
\* origin of the clone in it is, after normalisation, the base URL asked for.
C13_NeverAnotherRepository ==
    [][\A c \in Callers :
         (~Finished(c) /\ job'[c].pc = "returned") =>
            LET d == tmpDirs'[job'[c].ret]
                base == ExtractBaseUrl(job[c].url)
            IN /\ job'[c].ret = TempDir(job[c].url)
               /\ d.st \in {"repo", "partial"} =>
                     NormalizeUrl(d.origin) = NormalizeUrl(base)
               /\ job[c].alone => d.st = "repo"]_vars

C13_Witness ==
    \E c \in Callers :
        /\ job[c].pc = "returned" /\ HasIn(job[c].log, "reuse")
        /\ Here(c).st = "repo"
        /\ Here(c).origin # ExtractBaseUrl(job[c].url)

\* C14: on the reuse of a matching working copy with a ref, the checkout,
\* failing or not, is followed by the return of the same directory, which is
\* left as it is.
C14_ReuseCheckoutTolerated ==
    [][\A c \in Callers :
         (job[c].pc = "checkout_reuse" /\ job'[c].pc # "checkout_reuse") =>
            /\ job'[c].pc = "returned"
            /\ job'[c].ret = TempDir(job[c].url)
            /\ tmpDirs' = tmpDirs]_vars

C14_Witness ==
    \E c \in Callers :
        /\ job[c].pc = "returned" /\ HasIn(job[c].log, "reuse_checkout_failed")
        /\ job[c].alone /\ Here(c).st = "repo"

\* C15: two References whose base URLs are equal after normalisation (they
\* differ in the ref, a trailing "/" or ".git") have the same directory.
C15_DirOfBaseUrl ==
    \A c, d \in Callers :
        (job[c].url # NoUrl /\ job[d].url # NoUrl
           /\ NormalizeUrl(ExtractBaseUrl(job[c].url)) = NormalizeUrl(ExtractBaseUrl(job[d].url)))
        => TempDir(job[c].url) = TempDir(job[d].url)

\* C16: the removal in the catch around the reuse never takes away a clone
\* whose origin matches the base URL asked for.
C16_MatchingCopyKept ==
    [][\A c \in Callers :
         (job[c].pc = "rm_stale" /\ job'[c].pc # "rm_stale") =>
            ~(Here(c).st = "repo"
                /\ RemoteMatches(Here(c).origin, ExtractBaseUrl(job[c].url)))]_vars

Filenames(text) == [k \in 1..Len(BlocksOf(text)) |-> BlocksOf(text)[k].filename]

Emitted(p) == \E k \in 1..Len(BlocksOf(extracted[1])) : BlocksOf(extracted[1])[k].filename = p

\* C17: when every written path is requested, the result has for each written
\* file a block under its path that holds the file's content (as written, or
\* with the blank space around it trimmed), whatever the names and the text
\* of the files.
C17_RoundTrip ==
    (Len(extracted) >= 1
       /\ {request[i] : i \in 1..Len(request)} = {written[i].path : i \in 1..Len(written)})
    => \A i \in 1..Len(written) :
          \E k \in 1..Len(BlocksOf(extracted[1])) :
              /\ BlocksOf(extracted[1])[k].filename = written[i].path
              /\ BlocksOf(extracted[1])[k].content \in {written[i].body, Trim(written[i].body)}

\* C18: extracting from the result of an extraction, with the same paths,
\* gives that result again.
C18_Idempotent ==
    Len(extracted) = 2 => extracted[2] = extracted[1]

\* C19: a requested path has a block in the result exactly when some block of
\* the content declares a filename that is the path, the path's last segment,
\* or what follows a "/" at the end of the path.
C19_EmitsIffMatches ==
    Len(extracted) >= 1 =>
        \A i \in 1..Len(request) :
            LET p == request[i]
                fs == Filenames(ConcatenatedContent(written))
            IN Emitted(p) <=>
                  \E k \in 1..Len(fs) :
                      \/ p = fs[k]
                      \/ <<p[Len(p)]>> = fs[k]
                      \/ \E n \in 1..(Len(p) - 1) : SubSeq(p, n + 1, Len(p)) = fs[k]

C19_Witness ==
    /\ Len(extracted) >= 1
    /\ \E i, j \in 1..Len(request) :
         /\ request[i] = <<"app", "main.py">> /\ Emitted(request[i])
         /\ \A k \in 1..Len(written) : written[k].path # request[i]
         /\ ~Emitted(request[j])

\* C20: the blocks of the result are in the order in which their paths were
\* first given in the request.
C20_RequestOrder ==
    Len(extracted) >= 1 =>
        Filenames(extracted[1]) = SelectSeq(InsertionOrder(request), Emitted)

----------------------------------------------------------------------------
\* The working copy as RepositoryAnalyzer and RepositorySearcher walk it.  A
\* directory is the sequence of its entries in the order fs.readdir gives
\* them; an entry carries what fs.stat and fs.readFile tell about it: whether
\* it is a directory, its size in bytes, its text as the pieces of
\* split('\n'), and for a directory its own entries.

FileEntry(name, size, lines) ==
    [name |-> name, isDirectory |-> FALSE, size |-> size, lines |-> lines, entries |-> <<>>]

DirEntry(name, entries) ==
    [name |-> name, isDirectory |-> TRUE, size |-> 0, lines |-> <<>>, entries |-> entries]

\* the names of the model in the order of Array.prototype.sort (UTF-16 code
\* units: '.' before capitals before small letters, a prefix before its
\* extensions)
CodeUnitOrder == <<".env", ".git", ".gitignore", "README.md", "a.ts", "b.ts", "lib", "src">>

Rank(name) == CHOOSE i \in 1..Len(CodeUnitOrder) : CodeUnitOrder[i] = name

\* entry.startsWith('.git')
StartsWithGit(name) == name \in {".git", ".gitignore"}

Range(seq) == { seq[i] : i \in 1..Len(seq) }

\* a mutant of SortEntries: the listing is taken as it comes
SortEntries_Unsorted(entries) == entries

\* entries.sort()
SortEntries(entries) ==
    [i \in 1..Len(entries) |->
        CHOOSE e \in Range(entries) :
            Cardinality({ f \in Range(entries) : Rank(f.name) < Rank(e.name) }) = i - 1]

\* the box-drawing pieces: U+251C U+2500 U+2500 and a blank; U+2514 U+2500
\* U+2500 and a blank; U+2502 and three blanks; four blanks
Tee == "|-- "

Elbow == "L-- "

Bar == "|   "

Blanks == "    "

\* generateDirectoryTree(dirPath, prefix): a string is the sequence of its
\* pieces, "\n" being a piece
RECURSIVE DirectoryTree(_, _)
DirectoryTree(listing, prefix) ==
    LET entries == SortEntries(listing)
        RECURSIVE From(_)
        From(i) ==
            IF i > Len(entries) THEN <<>>
            ELSE LET entry == entries[i]
                     isLast == i = Len(entries)
                     currentPrefix == IF isLast THEN Elbow ELSE Tee
                     nextPrefix == IF isLast THEN Blanks ELSE Bar
                 IN IF StartsWithGit(entry.name) THEN From(i + 1)
                    ELSE prefix \o <<currentPrefix, entry.name, "\n">>
                         \o (IF entry.isDirectory
                             THEN DirectoryTree(entry.entries, prefix \o <<nextPrefix>>)
                             ELSE <<>>)
                         \o From(i + 1)
    IN From(1)

\* 1024 * 1024
OneMiB == 1048576

\* a mutant of TooLarge: the ceiling itself counts as too large
TooLarge_AtCeiling(size) == size >= OneMiB

\* stats.size > 1024 * 1024
TooLarge(size) == size > OneMiB

\* (stats.size / 1024 / 1024).toFixed(2), in hundredths
ToFixed2(size) == (size * 100 + (OneMiB \div 2)) \div OneMiB

\* `[File too large to display: ${...} MB]`
TooLargeLine(size) == <<"File too large to display", <<ToFixed2(size)>>>>

\* readRepositoryContent, processDirectory: the blocks in the order of the walk
RECURSIVE WalkBlocks(_, _)
WalkBlocks(entries, relativePath) ==
    IF entries = <<>> THEN <<>>
    ELSE LET entry == Head(entries)
             entryRelativePath == relativePath \o <<entry.name>>
             here == IF StartsWithGit(entry.name) THEN <<>>
                     ELSE IF entry.isDirectory
                     THEN WalkBlocks(entry.entries, entryRelativePath)
                     ELSE IF TooLarge(entry.size)
                     THEN <<File(entryRelativePath, <<TooLargeLine(entry.size)>>)>>
                     ELSE <<File(entryRelativePath, entry.lines)>>
         IN here \o WalkBlocks(Tail(entries), relativePath)

\* readRepositoryContent(repoPath)
RepositoryContent(listing) == ConcatenatedContent(WalkBlocks(listing, <<>>))

\* what the recursive tree listing of the remote API holds for the files of a
\* working copy: a blob for every tracked file, a tree for every directory
\* above one; the .git directory is no part of it
RECURSIVE TreeItems(_, _)
TreeItems(entries, parentPath) ==
    UNION { IF entries[i].name = ".git" THEN {}
            ELSE IF entries[i].isDirectory
            THEN LET below == TreeItems(entries[i].entries, parentPath \o <<entries[i].name>>)
                 IN IF below = {} THEN {}
                    ELSE {[path |-> parentPath \o <<entries[i].name>>, type |-> "tree"]} \cup below
            ELSE {[path |-> parentPath \o <<entries[i].name>>, type |-> "blob"]}
          : i \in 1..Len(entries) }

\* path.startsWith(parentPath), parentPath ending in '/'
StartsWith(path, parentPath) ==
    /\ Len(path) >= Len(parentPath)
    /\ SubSeq(path, 1, Len(parentPath)) = parentPath

\* Object.keys(dirs).sort(), files.sort()
SortNames(names) ==
    [i \in 1..Cardinality(names) |->
        CHOOSE n \in names : Cardinality({ m \in names : Rank(m) < Rank(n) }) = i - 1]

\* childOutput.split('\n').map(line => childPrefix + line).join('\n')
MapLines(text, childPrefix) ==
    LET RECURSIVE After(_)
        After(i) ==
            IF i > Len(text) THEN <<>>
            ELSE (IF text[i] = "\n" THEN <<"\n", childPrefix>> ELSE <<text[i]>>) \o After(i + 1)
    IN <<childPrefix>> \o After(1)

\* output.trimEnd()
RECURSIVE TrimEnd(_)
TrimEnd(text) ==
    IF text # <<>> /\ text[Len(text)] = "\n" THEN TrimEnd(SubSeq(text, 1, Len(text) - 1))
    ELSE text

\* formatRepositoryTree, buildTree(items, parentPath)
RECURSIVE BuildTree(_, _)
BuildTree(items, parentPath) ==
    LET under == { it \in items : StartsWith(it.path, parentPath) /\ Len(it.path) > Len(parentPath) }
        parts(it) == SubSeq(it.path, Len(parentPath) + 1, Len(it.path))
        files == { parts(it)[1] : it \in { u \in under : Len(parts(u)) = 1 /\ u.type = "blob" } }
        dirs == { parts(it)[1] : it \in { u \in under : Len(parts(u)) > 1
                                                        \/ (Len(parts(u)) = 1 /\ u.type = "tree") } }
        sortedDirs == SortNames(dirs)
        arr == sortedDirs \o SortNames(files)
        RECURSIVE From(_)
        From(i) ==
            IF i > Len(arr) THEN <<>>
            ELSE LET entry == arr[i]
                     isLast == i = Len(arr)
                     prefix == IF isLast THEN Elbow ELSE Tee
                     childPrefix == IF isLast THEN Blanks ELSE Bar
                     childOutput == IF entry \in Range(sortedDirs)
                                    THEN BuildTree(items, parentPath \o <<entry>>)
                                    ELSE <<>>
                 IN <<prefix, entry, "\n">>
                    \o (IF childOutput # <<>> THEN MapLines(childOutput, childPrefix) \o <<"\n">>
                        ELSE <<>>)
                    \o From(i + 1)
    IN TrimEnd(From(1))

FormatRepositoryTree(items) == BuildTree(items, <<>>)

----------------------------------------------------------------------------
\* RepositorySearcher.searchContent.  The lines of the model hold one word
\* each, so the pattern matches a line when it is that word up to case.

Lower(str) == IF str = "Foo" THEN "foo" ELSE str

\* new RegExp(query, 'i') raises a SyntaxError for "["
ValidPattern(q) == q # "["

\* searchRegex.test(line)
Test(q, line) == Lower(line[2][1]) = Lower(q)

Max(a, b) == IF a > b THEN a ELSE b

Min(a, b) == IF a < b THEN a ELSE b

\* a mutant of ContextOf: one line before and one after
ContextOf_Narrow(lines, i) ==
    LET lo == Max(1, i - 1)
        hi == Min(Len(lines), i + 1)
    IN [k \in 1..Len(SelectSeq([x \in 1..(hi - lo + 1) |-> lo + x - 1], LAMBDA j : j # i)) |->
          LET j == SelectSeq([x \in 1..(hi - lo + 1) |-> lo + x - 1], LAMBDA jj : jj # i)[k]
          IN <<j, lines[j]>>]

\* contextLines, with the lines counted from 1: `${j + 1}: ${lines[j]}`
ContextOf(lines, i) ==
    LET lo == Max(1, i - 2)
        hi == Min(Len(lines), i + 2)
        js == SelectSeq([x \in 1..(hi - lo + 1) |-> lo + x - 1], LAMBDA j : j # i)
    IN [k \in 1..Len(js) |-> <<js[k], lines[js[k]]>>]

\* results.length >= maxResults, after a push
StopAfterMatch(results, n) == Len(results) >= n

\* a mutant of StopAfterEntry: the walk goes on after a directory or file
StopAfterEntry_Never(results, n) == FALSE

\* results.length >= maxResults, after an entry
StopAfterEntry(results, n) == Len(results) >= n

Touch(st, event) == [st EXCEPT !.log = Append(@, event)]

\* the loop over the lines of a file, from line i on
RECURSIVE SearchLines(_, _, _, _, _, _)
SearchLines(lines, entryRelativePath, i, st, q, n) ==
    IF i > Len(lines) THEN st
    ELSE LET tested == Touch(st, <<"test", entryRelativePath, i>>)
         IN IF Test(q, lines[i])
            THEN LET pushed == [Touch(tested, <<"push", entryRelativePath, i>>)
                                  EXCEPT !.results = Append(@, [path |-> entryRelativePath,
                                                                line |-> i,
                                                                content |-> lines[i],
                                                                context |-> ContextOf(lines, i)])]
                 IN IF StopAfterMatch(pushed.results, n)
                    THEN [pushed EXCEPT !.returned = TRUE]
                    ELSE SearchLines(lines, entryRelativePath, i + 1, pushed, q, n)
            ELSE SearchLines(lines, entryRelativePath, i + 1, tested, q, n)

\* processDirectory(dirPath, relativePath)
RECURSIVE ProcessDirectory(_, _, _, _, _)
ProcessDirectory(entries, relativePath, st, q, n) ==
    LET RECURSIVE From(_, _)
        From(i, s) ==
            IF i > Len(entries) THEN s
            ELSE LET entry == entries[i]
                     entryRelativePath == relativePath \o <<entry.name>>
                     stat == Touch(s, <<"stat", entryRelativePath>>)
                 IN IF StartsWithGit(entry.name) THEN From(i + 1, s)
                    ELSE IF entry.isDirectory
                    THEN LET below == ProcessDirectory(entry.entries, entryRelativePath, stat, q, n)
                         IN IF StopAfterEntry(below.results, n) THEN below
                            ELSE From(i + 1, below)
                    ELSE IF TooLarge(entry.size) THEN From(i + 1, stat)
                    ELSE LET read == SearchLines(entry.lines, entryRelativePath, 1,
                                                 [Touch(stat, <<"readFile", entryRelativePath>>)
                                                    EXCEPT !.returned = FALSE], q, n)
                         IN IF read.returned \/ StopAfterEntry(read.results, n) THEN read
                            ELSE From(i + 1, read)
    IN From(1, Touch(st, <<"readdir", relativePath>>))

\* searchContent(query, maxResults)
SearchContent(listing, q, n) ==
    IF ~ValidPattern(q)
    THEN [status |-> "raised", error |-> "SyntaxError", results |-> <<>>, log |-> <<>>]
    ELSE LET done == ProcessDirectory(listing, <<>>,
                                      [results |-> <<>>, log |-> <<>>, returned |-> FALSE], q, n)
         IN [status |-> "returned", error |-> "", results |-> done.results, log |-> done.log]

----------------------------------------------------------------------------
\* The search over working copies whose files differ in their lines and
\* sizes.

Hit == TextLine("Foo")

Miss == TextLine("bar")

\* Bounds: the pieces of a file, the largest maxResults asked for
MaxLines == 5

MaxResults == 2

\* the texts: a final blank piece is a final newline
Texts == UNION { [1..k -> {Hit, Miss, BlankLine}] : k \in 1..MaxLines }

Queries == {"foo", "["}

\* stats.size of a file of a few bytes
Small == 12

Other == FileEntry("b.ts", Small, <<Hit, Hit>>)

\* a file among others, below directories, beside a .git directory and
\* beside files around the size ceiling
SearchDirsOf(f) ==
    { <<f>>, <<f, Other>>, <<Other, f>>,
      <<DirEntry("src", <<f>>), Other>>,
      <<DirEntry("src", <<DirEntry("lib", <<f>>), Other>>), FileEntry("README.md", Small, <<Hit>>)>>,
      <<DirEntry(".git", <<Other>>), f>>,
      <<FileEntry("b.ts", OneMiB, <<Hit>>), f>>,
      <<FileEntry("b.ts", OneMiB + 1, <<Hit>>), f>>,
      <<FileEntry("b.ts", 2 * OneMiB, <<Hit>>), f>> }

SearchDirs == UNION { SearchDirsOf(FileEntry("a.ts", Small, text)) : text \in Texts }

SearcherInit ==
    /\ PipelineAtRest
    /\ ToolsAtRest
    /\ branch = FALSE
    /\ ClonerAtRest
    /\ ExtractorAtRest
    /\ FacadeAtRest
    /\ workdir \in SearchDirs
    /\ query \in Queries
    /\ maxResults \in 0..MaxResults
    /\ searched = <<>>
    /\ rendered = <<>>
    /\ blob = <<>>
    /\ remoteTree = <<>>

\* searcher.searchContent(query, maxResults)
Search ==
    /\ searched = <<>>
    /\ searched' = <<SearchContent(workdir, query, maxResults)>>
    /\ UNCHANGED <<workdir, query, maxResults, rendered, blob, remoteTree,
                   pipelineVars, toolVars, clonerVars, extractorVars, facadeVars>>

\* analyzer.readRepositoryContent(repoPath)
ReadContent ==
    /\ blob = <<>>
    /\ blob' = <<RepositoryContent(workdir)>>
    /\ UNCHANGED <<workdir, query, maxResults, searched, rendered, remoteTree,
                   pipelineVars, toolVars, clonerVars, extractorVars, facadeVars>>

SearcherNext == Search \/ ReadContent

SearcherSpec == SearcherInit /\ [][SearcherNext]_vars

----------------------------------------------------------------------------
\* The scan over working copies whose entries differ in their names and in
\* the order fs.readdir lists them.

\* Bound: entries in a directory
MaxEntries == 2

ScanFiles == { FileEntry(name, Small, <<TextLine("x=1")>>) :
                 name \in {".env", ".gitignore", "README.md"} }

\* the listings of up to n entries out of S; a directory holds no name twice
Listings(S, n) ==
    { l \in UNION { [1..k -> S] : k \in 1..n } :
        \A i, j \in 1..Len(l) : i # j => l[i].name # l[j].name }

ScanDirs == Listings(ScanFiles \cup { DirEntry("src", l) : l \in Listings(ScanFiles, MaxEntries) },
                     MaxEntries)

\* the same entries as fs.readdir may list them another time
RECURSIVE Relistings(_)
Relistings(listing) ==
    LET variants(e) == IF e.isDirectory
                       THEN { DirEntry(e.name, l) : l \in Relistings(e.entries) }
                       ELSE {e}
    IN { l \in [1..Len(listing) -> UNION { variants(e) : e \in Range(listing) }] :
           { e.name : e \in Range(l) } = { e.name : e \in Range(listing) } }

AnalyzerInit ==
    /\ PipelineAtRest
    /\ ToolsAtRest
    /\ branch = FALSE
    /\ ClonerAtRest
    /\ ExtractorAtRest
    /\ FacadeAtRest
    /\ workdir \in ScanDirs
    /\ query = ""
    /\ maxResults = 0
    /\ searched = <<>>
    /\ rendered = <<>>
    /\ blob = <<>>
    /\ remoteTree = <<>>

\* fs.readdir gives the entries in no particular order: between two scans
\* the listings change
Relist ==
    /\ Len(rendered) = 1
    /\ workdir' \in Relistings(workdir) \ {workdir}
    /\ UNCHANGED <<query, maxResults, searched, rendered, blob, remoteTree,
                   pipelineVars, toolVars, clonerVars, extractorVars, facadeVars>>

\* analyzer.generateDirectoryTree(repoPath)
GenerateTree ==
    /\ Len(rendered) < 2
    /\ rendered' = Append(rendered, [listing |-> workdir, tree |-> DirectoryTree(workdir, <<>>)])
    /\ UNCHANGED <<workdir, query, maxResults, searched, blob, remoteTree,
                   pipelineVars, toolVars, clonerVars, extractorVars, facadeVars>>

\* GitHubAPI.fetchRepositoryData: the tree of the same files
FormatTree ==
    /\ remoteTree = <<>>
    /\ remoteTree' = <<FormatRepositoryTree(TreeItems(workdir, <<>>))>>
    /\ UNCHANGED <<workdir, query, maxResults, searched, rendered, blob,
                   pipelineVars, toolVars, clonerVars, extractorVars, facadeVars>>

AnalyzerNext == Relist \/ GenerateTree \/ FormatTree

AnalyzerSpec == AnalyzerInit /\ [][AnalyzerNext]_vars

----------------------------------------------------------------------------
\* Claims on the search and the scan

\* the files the walks are about: those not below a '.git'-prefixed entry
RECURSIVE FilesOf(_, _)
FilesOf(entries, relativePath) ==
    UNION { IF StartsWithGit(entries[i].name) THEN {}
            ELSE IF entries[i].isDirectory
            THEN FilesOf(entries[i].entries, relativePath \o <<entries[i].name>>)
            ELSE {[path |-> relativePath \o <<entries[i].name>>, size |-> entries[i].size,
                   lines |-> entries[i].lines]}
          : i \in 1..Len(entries) }

NoLineMatches ==
    \A f \in FilesOf(workdir, <<>>) : \A i \in 1..Len(f.lines) : ~Test(query, f.lines[i])

\* C21: for every pattern and every maxResults N, N = 0 included,
\* searchContent returns at most N results, and when no line matches it
\* returns the empty list and raises nothing.
C21_AtMostMaxResults ==
    searched # <<>> =>
        /\ Len(searched[1].results) <= maxResults
        /\ NoLineMatches => searched[1].status = "returned" /\ searched[1].results = <<>>

Pushes(log, p) == Cardinality({ k \in 1..p : log[k][1] = "push" })

FileAt(path) == CHOOSE f \in FilesOf(workdir, <<>>) : f.path = path

\* C23: every match reported for line i (counted from 1) of a file of L
\* pieces is a matching line, its context is the lines max(1, i-2) to
\* min(L, i+2) without line i, in ascending order, each with its own number.
C23_Context ==
    searched # <<>> =>
        \A k \in 1..Len(searched[1].results) :
            LET r == searched[1].results[k]
                lines == FileAt(r.path).lines
                around == { j \in 1..Len(lines) : j >= r.line - 2 /\ j <= r.line + 2 /\ j # r.line }
            IN /\ r.line \in 1..Len(lines)
               /\ Test(query, lines[r.line])
               /\ r.content = lines[r.line]
               /\ Len(r.context) = Cardinality(around)
               /\ { r.context[c] : c \in 1..Len(r.context) } = { <<j, lines[j]>> : j \in around }
               /\ \A c, d \in 1..Len(r.context) : c < d => r.context[c][1] < r.context[d][1]

\* a match in the middle of a file with two lines on either side, and one
\* on the first line
C23_Witness ==
    /\ searched # <<>>
    /\ \E k \in 1..Len(searched[1].results) :
          searched[1].results[k].line = 3 /\ Len(searched[1].results[k].context) = 4
    /\ \E k \in 1..Len(searched[1].results) :
          searched[1].results[k].line = 1 /\ Len(searched[1].results[k].context) = 2

\* the lines of a rendered tree
RECURSIVE TreeLines(_)
TreeLines(text) ==
    IF text = <<>> THEN <<>>
    ELSE LET end == CHOOSE i \in 1..(Len(text) + 1) :
                        /\ i = Len(text) + 1 \/ text[i] = "\n"
                        /\ \A j \in 1..(i - 1) : text[j] # "\n"
         IN <<SubSeq(text, 1, end - 1)>> \o TreeLines(SubSeq(text, end + 1, Len(text)))

Depth(line) == Len(line) - 2

\* line m lies in the subtree of line k
Below(lines, k, m) == m > k /\ \A x \in (k + 1)..m : Depth(lines[x]) > Depth(lines[k])

\* an entry of the same directory is listed after line k
HasLaterSibling(lines, k) ==
    \E m \in (k + 1)..Len(lines) :
        /\ Depth(lines[m]) = Depth(lines[k])
        /\ \A x \in (k + 1)..(m - 1) : Depth(lines[x]) > Depth(lines[k])

\* C25: in every tree generateDirectoryTree renders, the last listed entry of
\* a directory has the closing connector and blanks before its subtree,
\* every other listed entry the open connector and a vertical bar.
C25_Connectors ==
    \A t \in 1..Len(rendered) :
        LET lines == TreeLines(rendered[t].tree)
        IN \A k \in 1..Len(lines) :
              LET last == ~HasLaterSibling(lines, k)
              IN /\ lines[k][Len(lines[k]) - 1] = (IF last THEN Elbow ELSE Tee)
                 /\ \A m \in 1..Len(lines) :
                       Below(lines, k, m) =>
                           lines[m][Depth(lines[k]) + 1] = (IF last THEN Blanks ELSE Bar)

\* the entries generateDirectoryTree is to list, as <<depth, name>>
RECURSIVE Listed(_, _)
Listed(entries, depth) ==
    LET shown == { e \in entries : ~StartsWithGit(e.name) }
        first == CHOOSE e \in shown : \A f \in shown : Rank(e.name) <= Rank(f.name)
    IN IF shown = {} THEN <<>>
       ELSE <<<<depth, first.name>>>>
            \o (IF first.isDirectory THEN Listed(Range(first.entries), depth + 1) ELSE <<>>)
            \o Listed(shown \ {first}, depth)

\* C26: for the same entries generateDirectoryTree renders the same string
\* however the directories are listed; each level shows files and
\* directories together in lexicographic order, without the entries whose
\* name starts with '.git'.
C26_Deterministic ==
    \A t \in 1..Len(rendered) :
        /\ rendered[t].tree = rendered[1].tree
        /\ LET lines == TreeLines(rendered[t].tree)
           IN [k \in 1..Len(lines) |-> <<Depth(lines[k]), lines[k][Len(lines[k])]>>]
                = Listed(Range(workdir), 0)

\* two renderings of README.md, src and a '.git'-prefixed entry below src,
\* listed in different orders
C26_Witness ==
    /\ Len(rendered) = 2
    /\ rendered[1].listing # rendered[2].listing
    /\ rendered[1].listing[1].name = "src"
    /\ \E e \in Range(rendered[1].listing) : e.name = "README.md"
    /\ \E e \in Range(rendered[1].listing[1].entries) : StartsWithGit(e.name)

\* every directory in lexicographic order
RECURSIVE SortedWalk(_)
SortedWalk(listing) ==
    LET sorted == SortEntries(listing)
    IN [i \in 1..Len(sorted) |->
          IF sorted[i].isDirectory
          THEN DirEntry(sorted[i].name, SortedWalk(sorted[i].entries))
          ELSE sorted[i]]

\* C27: the content readRepositoryContent returns holds one block per file
\* outside '.git'-prefixed entries, in the order of a depth-first walk that
\* visits the entries of every directory in lexicographic order, however the
\* directories are listed.
C27_LexicographicWalk ==
    blob # <<>> => blob[1] = ConcatenatedContent(WalkBlocks(SortedWalk(workdir), <<>>))

Occurs(text, piece) ==
    \E k \in 0..(Len(text) - Len(piece)) : SubSeq(text, k + 1, k + Len(piece)) = piece

Header(path) == <<SepLine, FileLine(path), SepLine>>

C29_SameTree ==
    remoteTree # <<>> =>
        \A t \in 1..Len(rendered) : TrimEnd(rendered[t].tree) = remoteTree[1]

----------------------------------------------------------------------------
\* GitIngester.searchRepositoryContent and GitIngester.getDiff with
\* RepositoryDiffer.getDiff below it.  One call runs at a time; every await
\* is a step.  A string is the sequence of its pieces, the empty string the
\* empty sequence.

\* Bound: calls of the two operations on one ingester
MaxOps == 2

Refs == {"main", "dev"}

Fresh == [repoPath |-> FALSE, searcher |-> FALSE, differ |-> FALSE]

\* fetchRepoData after cloneRepository returned: repoPath, searcher, differ
Materialized == [repoPath |-> TRUE, searcher |-> TRUE, differ |-> TRUE]

\* what git.diff([base, head]) may give: nothing, white space, a diff
DiffResults == { <<>>, <<" ", "\n">>, <<"diff --git a/x b/x", "\n">> }

\* diffResult.trim() === ''
IsBlank(str) == \A i \in 1..Len(str) : str[i] \in {" ", "\n"}

NoDifferences(base, head) == <<"No differences found between ", base, " and ", head>>

\* a mutant of DiffOutput: the diff is returned as it is
DiffOutput_Raw(diffResult, base, head) == diffResult

\* RepositoryDiffer.getDiff, after git.diff
DiffOutput(diffResult, base, head) ==
    IF diffResult = <<>> \/ IsBlank(diffResult) THEN NoDifferences(base, head) ELSE diffResult

FacadeInit ==
    /\ PipelineAtRest
    /\ ToolsAtRest
    /\ branch = FALSE
    /\ ClonerAtRest
    /\ ExtractorAtRest
    /\ WalkAtRest
    /\ ingester \in {Fresh, Materialized}
    /\ op = NoOp
    /\ opCalls = 0

OpStep(to, events) == op' = [op EXCEPT !.pc = to, !.log = @ \o events]

OpEnd(how, value, events) ==
    op' = [op EXCEPT !.pc = how, !.ret = value, !.log = @ \o events]

\* where a call goes before its first await: to fetchRepoData when there is
\* neither the component nor a repoPath, else to the component
Entry(component) == IF ~component /\ ~ingester.repoPath THEN "fetching" ELSE "local"

\* searchRepositoryContent(query, maxResults), up to the first await
CallSearch ==
    /\ op.pc \in {"idle", "returned", "raised"}
    /\ opCalls < MaxOps
    /\ opCalls' = opCalls + 1
    /\ op' = [NoOp EXCEPT !.kind = "search", !.pc = Entry(ingester.searcher)]
    /\ ingester' = IF ingester.repoPath THEN [ingester EXCEPT !.searcher = TRUE] ELSE ingester
    /\ UNCHANGED <<pipelineVars, toolVars, clonerVars, extractorVars, walkVars>>

\* getDiff(base, head), up to the first await
CallDiff ==
    /\ op.pc \in {"idle", "returned", "raised"}
    /\ opCalls < MaxOps
    /\ opCalls' = opCalls + 1
    /\ \E base, head \in Refs :
          op' = [NoOp EXCEPT !.kind = "diff", !.pc = Entry(ingester.differ),
                             !.base = base, !.head = head]
    /\ ingester' = IF ingester.repoPath THEN [ingester EXCEPT !.differ = TRUE] ELSE ingester
    /\ UNCHANGED <<pipelineVars, toolVars, clonerVars, extractorVars, walkVars>>

\* await this.fetchRepoData(): a cache hit or a remote snapshot after a
\* failed clone leave repoPath null and the call goes to the remote API; a
\* clone sets repoPath and the components, whether or not the scan after it
\* fails; fetchRepoData raises when its remote fallback fails
FetchRepoDataInOp ==
    /\ op.pc = "fetching"
    /\ \/ /\ OpStep("remote", <<<<"fetchRepoData", "returned">>>>)
          /\ UNCHANGED ingester
       \/ /\ OpStep("local", <<<<"fetchRepoData", "returned">>>>)
          /\ ingester' = Materialized
       \/ /\ OpEnd("raised", <<"Failed to fetch repository data">>,
                   <<<<"fetchRepoData", "raised">>>>)
          /\ ingester' \in {ingester, Materialized}
    /\ UNCHANGED <<opCalls, pipelineVars, toolVars, clonerVars, extractorVars, walkVars>>

\* await this.searcher.searchContent(query, maxResults)
LocalSearch ==
    /\ op.pc = "local"
    /\ op.kind = "search"
    /\ \/ OpEnd("returned", <<"local results">>, <<<<"local", "returned">>>>)
       \/ OpStep("remote", <<<<"local", "raised">>>>)
    /\ UNCHANGED <<ingester, opCalls, pipelineVars, toolVars, clonerVars, extractorVars, walkVars>>

\* RepositoryDiffer.getDiff: simpleGitFn(repoPath), await git.fetch('origin', base)
DifferFetchBase ==
    /\ op.pc = "local"
    /\ op.kind = "diff"
    /\ \/ OpStep("fetch_head", <<<<"fetch", op.base, "ok">>>>)
       \/ OpStep("diff", <<<<"fetch", op.base, "failed">>>>)
       \/ OpStep("remote", <<<<"simpleGit", "raised">>, <<"differ", "raised">>>>)
    /\ UNCHANGED <<ingester, opCalls, pipelineVars, toolVars, clonerVars, extractorVars, walkVars>>

\* await git.fetch('origin', head)
DifferFetchHead ==
    /\ op.pc = "fetch_head"
    /\ \/ OpStep("diff", <<<<"fetch", op.head, "ok">>>>)
       \/ OpStep("diff", <<<<"fetch", op.head, "failed">>>>)
    /\ UNCHANGED <<ingester, opCalls, pipelineVars, toolVars, clonerVars, extractorVars, walkVars>>

\* await git.diff([base, head]) and what follows it
DifferDiff ==
    /\ op.pc = "diff"
    /\ \/ \E diffResult \in DiffResults :
             OpEnd("returned", DiffOutput(diffResult, op.base, op.head),
                   <<<<"diff", diffResult>>, <<"differ", "returned">>>>)
       \/ OpStep("remote", <<<<"diff", "raised">>, <<"differ", "raised">>>>)
    /\ UNCHANGED <<ingester, opCalls, pipelineVars, toolVars, clonerVars, extractorVars, walkVars>>

\* searchViaGitHubAPI, getDiffViaGitHubAPI
RemoteOp ==
    /\ op.pc = "remote"
    /\ \/ OpEnd("returned", <<"remote result">>, <<<<"remote", "returned">>>>)
       \/ OpEnd("raised", <<"Failed via GitHub API">>, <<<<"remote", "raised">>>>)
    /\ UNCHANGED <<ingester, opCalls, pipelineVars, toolVars, clonerVars, extractorVars, walkVars>>

FacadeNext ==
    \/ CallSearch
    \/ CallDiff
    \/ FetchRepoDataInOp
    \/ LocalSearch
    \/ DifferFetchBase
    \/ DifferFetchHead
    \/ DifferDiff
    \/ RemoteOp

FacadeSpec == FacadeInit /\ [][FacadeNext]_vars

OpHas(event) == \E i \in 1..Len(op.log) : op.log[i] = event

\* C24: searchRepositoryContent and getDiff raise to their caller only after
\* the remote API fallback of the operation was tried and failed, also when
\* the call had to run fetchRepoData first and that failed.
C24_FallbackBeforeFailure ==
    op.pc = "raised" => OpHas(<<"remote", "raised">>)

\* C30: RepositoryDiffer.getDiff returns no empty string: for an empty diff
\* it returns 'No differences found between <base> and <head>'; after a
\* failed fetch of base or head the diff is still computed; a failure of
\* anything else is raised.
C30_DifferResult ==
    /\ OpHas(<<"differ", "returned">>) =>
          /\ op.pc = "returned"
          /\ op.ret # <<>>
          /\ \E diffResult \in DiffResults :
                /\ OpHas(<<"diff", diffResult>>)
                /\ op.ret = IF \A i \in 1..Len(diffResult) : diffResult[i] \in {" ", "\n"}
                            THEN <<"No differences found between ", op.base, " and ", op.head>>
                            ELSE diffResult
    /\ (\E ref \in Refs : OpHas(<<"fetch", ref, "failed">>)) /\ op.pc \notin {"diff", "fetch_head"} =>
          \E i \in 1..Len(op.log) : op.log[i][1] = "diff"
    /\ OpHas(<<"diff", "raised">>) \/ OpHas(<<"simpleGit", "raised">>) =>
          OpHas(<<"differ", "raised">>) /\ ~OpHas(<<"differ", "returned">>)

\* the fetch of base failed, the diff was empty, and the message came back
C30_Witness ==
    /\ op.pc = "returned"
    /\ OpHas(<<"fetch", op.base, "failed">>)
    /\ OpHas(<<"diff", <<>>>>)
    /\ op.ret = NoDifferences(op.base, op.head)

----------------------------------------------------------------------------
\* The server process: createServer starts the interval timer, the entry
\* point (index.ts over stdio, sse.ts over HTTP) connects the server and
\* installs what runs cleanup.  A signal can arrive at any time; without a
\* handler for it the process ends by the default action.

\* Bound: heartbeat notifications sent
MaxBeats == 3

Signals == {"SIGINT", "SIGTERM"}

ServerInit ==
    /\ PipelineAtRest
    /\ branch = FALSE
    /\ ClonerAtRest
    /\ ExtractorAtRest
    /\ WalkAtRest
    /\ FacadeAtRest
    /\ \E mode \in {"stdio", "sse"} :
          proc = [NoProc EXCEPT !.mode = mode, !.pc = "created", !.timer = TRUE]
    /\ remote = NoRemote
    /\ objects = NoObjects
    /\ cm = NoCm

Running == proc.pc \in {"created", "serving"}

\* the callback of setInterval: server.notification(...)
Heartbeat ==
    /\ proc.timer
    /\ proc.pc # "exited"
    /\ proc.beats < MaxBeats
    /\ proc' = [proc EXCEPT !.beats = @ + 1, !.log = Append(@, "heartbeat")]
    /\ UNCHANGED <<pipelineVars, clonerVars, extractorVars, walkVars, facadeVars, remote, objects, cm>>

\* index.ts main: await server.connect(transport) resolved, process.on for
\* SIGINT and SIGTERM
StdioConnected ==
    /\ proc.mode = "stdio"
    /\ proc.pc = "created"
    /\ proc' = [proc EXCEPT !.pc = "serving", !.handlers = TRUE, !.log = Append(@, "connected")]
    /\ UNCHANGED <<pipelineVars, clonerVars, extractorVars, walkVars, facadeVars, remote, objects, cm>>

\* index.ts: main().catch, process.exit(1)
StdioConnectFails ==
    /\ proc.mode = "stdio"
    /\ proc.pc = "created"
    /\ proc' = [proc EXCEPT !.pc = "exited", !.timer = FALSE, !.log = Append(@, "error exit")]
    /\ UNCHANGED <<pipelineVars, clonerVars, extractorVars, walkVars, facadeVars, remote, objects, cm>>

\* sse.ts: GET /sse, await server.connect(transport), server.onclose = ...
SseConnection ==
    /\ proc.mode = "sse"
    /\ proc.pc = "created"
    /\ proc' = [proc EXCEPT !.pc = "serving", !.onclose = TRUE, !.log = Append(@, "connected")]
    /\ UNCHANGED <<pipelineVars, clonerVars, extractorVars, walkVars, facadeVars, remote, objects, cm>>

\* cleanup(): clearInterval(logInterval)
Cleanup(p) == [p EXCEPT !.timer = FALSE, !.cleaned = TRUE, !.log = Append(@, "cleanup")]

\* SIGINT or SIGTERM: the handler of index.ts runs cleanup() and awaits
\* server.close(); where no handler is installed the process is terminated
Signal ==
    /\ Running
    /\ \E sig \in Signals :
          IF proc.handlers
          THEN proc' = [Cleanup([proc EXCEPT !.log = Append(@, sig)]) EXCEPT !.pc = "closing"]
          ELSE proc' = [proc EXCEPT !.pc = "exited", !.timer = FALSE, !.log = Append(@, sig)]
    /\ UNCHANGED <<pipelineVars, clonerVars, extractorVars, walkVars, facadeVars, remote, objects, cm>>

\* sse.ts: server.onclose runs cleanup() and awaits server.close()
SseClose ==
    /\ proc.pc = "serving"
    /\ proc.onclose
    /\ proc' = [Cleanup([proc EXCEPT !.log = Append(@, "close")]) EXCEPT !.pc = "closing"]
    /\ UNCHANGED <<pipelineVars, clonerVars, extractorVars, walkVars, facadeVars, remote, objects, cm>>

\* await server.close() is over: process.exit(0)
Exit ==
    /\ proc.pc = "closing"
    /\ proc' = [proc EXCEPT !.pc = "exited", !.timer = FALSE, !.log = Append(@, "exit")]
    /\ UNCHANGED <<pipelineVars, clonerVars, extractorVars, walkVars, facadeVars, remote, objects, cm>>

ServerNext ==
    \/ Heartbeat
    \/ StdioConnected
    \/ StdioConnectFails
    \/ SseConnection
    \/ Signal
    \/ SseClose
    \/ Exit

ServerSpec == ServerInit /\ [][ServerNext]_vars

ProcHas(event) == \E i \in 1..Len(proc.log) : proc.log[i] = event

\* C31: no heartbeat notification is sent after cleanup() has run, and a
\* process that exits on SIGINT, on SIGTERM or on the close of the SSE
\* server has run cleanup() before.
C31_CleanupBeforeExit ==
    /\ \A i, j \in 1..Len(proc.log) :
          proc.log[i] = "cleanup" /\ i < j => proc.log[j] # "heartbeat"
    /\ proc.pc = "exited" /\ (\E e \in Signals \cup {"close"} : ProcHas(e)) => proc.cleaned

----------------------------------------------------------------------------
\* Claims on concurrent requests

\* request r has the working copy from cloneRepository and is between the
\* awaits of its scan
Scanning(r) == pc[r] \in {"scan_tree", "scan_count", "scan_read"}

\* C32: nothing keeps a request from running fetch or checkout on the
\* working-copy directory while another request for the same Reference is
\* scanning it: whenever the two meet, the git step can be taken.
C32_NoMutualExclusion ==
    \A r, o \in Requests :
        r # o /\ Scanning(o) /\ dir.st = "repo" =>
            /\ pc[r] = "clone_fetch" => ENABLED CloneFetch(r)
            /\ pc[r] = "clone_checkout_reuse" => ENABLED CloneCheckoutReuse(r)

\* one request is in the middle of its scan while the other is about to
\* check the branch out in the same directory
C32_Witness ==
    \E r, o \in Requests :
        /\ r # o
        /\ pc[o] \in {"scan_count", "scan_read"}
        /\ pc[r] = "clone_checkout_reuse"
        /\ dir.st = "repo"

----------------------------------------------------------------------------
\* The remote fallback of fetchRepoData.  Here a URL is the sequence of the
\* pieces its string has between the "/" characters (what split('/') gives),
\* so that a branch name, an owner or a repository may hold any text.

Host == <<"https:", "", "github.com">>

Owners == {"o", "tree"}

Repos == {"r", "tree"}

\* no branch given, a plain branch name, a branch name with a "/"
BranchPaths == { <<>>, <<"main">>, <<"feature", "x">> }

\* the url a tool call hands to new GitIngester(url, branch)
RepoUrl(owner, repo) == Host \o <<owner, repo>>

\* GitIngester constructor: if (branch) this.url = `${url}/tree/${branch}`
ThisUrl(url, b) == IF b = <<>> THEN url ELSE url \o <<"tree">> \o b

\* where the text "/tree/" starts in the string: a piece "tree" with a "/"
\* before it and a "/" after it
TreeAt(url) == {i \in 2..(Len(url) - 1) : url[i] = "tree"}

First(S) == CHOOSE i \in S : \A j \in S : i <= j

\* RepositoryCloner.extractBaseUrl: url.replace(/\/tree\/.*$/, '')
extractBaseUrl(url) ==
    IF TreeAt(url) = {} THEN url ELSE SubSeq(url, 1, First(TreeAt(url)) - 1)

\* RepositoryCloner.extractBranch: url.match(/\/tree\/([^/]+)/), match[1] or
\* null ("" here)
extractBranch(url) ==
    LET at == {i \in TreeAt(url) : url[i + 1] # ""}
    IN IF at = {} THEN "" ELSE url[First(at) + 1]

\* GitHubAPI.parseRepoUrl: url.replace('https://github.com/', '')
\* .split('/tree/')[0], then split('/'): owner and repo, undefined when the
\* piece is missing
parseRepoUrl(url) ==
    LET rest == IF Len(url) > 3 /\ SubSeq(url, 1, 3) = Host
                THEN SubSeq(url, 4, Len(url)) ELSE url
        ownerRepo == IF TreeAt(rest) = {} THEN rest
                    ELSE SubSeq(rest, 1, First(TreeAt(rest)) - 1)
    IN [owner |-> IF Len(ownerRepo) >= 1 THEN ownerRepo[1] ELSE "undefined",
        repo |-> IF Len(ownerRepo) >= 2 THEN ownerRepo[2] ELSE "undefined"]

\* CacheManager.getCacheKey: base64 of the url with / + = replaced by _: the
\* same for the same string, taken to differ for different strings
getCacheKey(url) == <<"key">> \o url

\* GitHubAPI.fetchRepositoryData: importantFiles
importantFiles == <<"README.md", "package.json", "pyproject.toml", ".gitignore">>

\* fetchRepositoryData: tree = 'Error fetching repository tree structure'
TreeError == "Error fetching repository tree structure"

\* fetchRepositoryData: content = 'Unable to fetch file contents'
NoContents == "Unable to fetch file contents"

\* a tree or a content: the placeholder text, or what was fetched and the
\* ref it was read at
Fetched(ref, blocks) == [placeholder |-> "", ref |-> ref, blocks |-> blocks]

Placeholder(text) == [placeholder |-> text, ref |-> <<>>, blocks |-> <<>>]

NoCached == [key |-> <<>>, summary |-> <<>>, tree |-> Placeholder(""), content |-> Placeholder("")]

\* the heads of the repository on the remote, and its default branch
Heads == { [heads |-> {"main"}, default |-> "main"],
           [heads |-> {"master"}, default |-> "master"],
           [heads |-> {"main", "master"}, default |-> "main"],
           [heads |-> {"main", "master"}, default |-> "master"] }

FallbackInit ==
    /\ PipelineAtRest
    /\ branch = FALSE
    /\ ClonerAtRest
    /\ ExtractorAtRest
    /\ WalkAtRest
    /\ FacadeAtRest
    /\ proc = NoProc
    /\ objects = NoObjects
    /\ cm = NoCm
    /\ \E owner \in Owners, repo \in Repos, b \in BranchPaths, h \in Heads :
          remote = [pc |-> "clone", owner |-> owner, repo |-> repo, branch |-> b,
                    heads |-> h.heads, default |-> h.default,
                    url |-> ThisUrl(RepoUrl(owner, repo), b),
                    cloneUrl |-> <<>>, cloneBranch |-> "",
                    summary |-> <<>>, tree |-> Placeholder(""),
                    content |-> Placeholder(""), at |-> 0, raised |-> "",
                    cache |-> NoCached]

\* fetchRepoData: this.cloner.cloneRepository(this.url) is given the base URL
\* to clone and the branch to check out; it returns the path, or raises and
\* the catch block goes to fetchFromRemote
FbClone ==
    /\ remote.pc = "clone"
    /\ \E ok \in BOOLEAN :
          remote' = [remote EXCEPT !.cloneUrl = extractBaseUrl(remote.url),
                                   !.cloneBranch = extractBranch(remote.url),
                                   !.pc = IF ok THEN "cloned" ELSE "repo_info"]
    /\ UNCHANGED <<pipelineVars, clonerVars, extractorVars, walkVars, facadeVars, proc, objects, cm>>

\* fetchFromRemote: fetchRepositoryData(extractBaseUrl(this.url)); the call
\* for the repository info answers when the parsed owner and repository name
\* one, and an error of it is raised to fetchRepoData's caller
FbRepoInfo ==
    /\ remote.pc = "repo_info"
    /\ LET parsed == parseRepoUrl(extractBaseUrl(remote.url))
       IN \E ok \in BOOLEAN :
             IF ok /\ parsed = [owner |-> remote.owner, repo |-> remote.repo]
             THEN remote' = [remote EXCEPT !.summary = <<parsed.owner, parsed.repo>>,
                                           !.pc = "tree"]
             ELSE remote' = [remote EXCEPT !.raised = "Failed to fetch repository data",
                                           !.pc = "failed"]
    /\ UNCHANGED <<pipelineVars, clonerVars, extractorVars, walkVars, facadeVars, proc, objects, cm>>

\* fetchRepositoryData: the call for /git/trees/master?recursive=1 in its own
\* try block; on an error the tree is the placeholder text
FbTree ==
    /\ remote.pc = "tree"
    /\ \E ok \in BOOLEAN :
          remote' = [remote EXCEPT
                        !.tree = IF ok /\ "master" \in remote.heads
                                 THEN Fetched(<<"master">>, <<>>)
                                 ELSE Placeholder(TreeError),
                        !.content = Fetched(<<remote.default>>, <<>>),
                        !.at = 1,
                        !.pc = "contents"]
    /\ UNCHANGED <<pipelineVars, clonerVars, extractorVars, walkVars, facadeVars, proc, objects, cm>>

\* fetchRepositoryData: the call for /contents/${file} of one important file
\* (no ref given: the default branch); a file adds its block, anything else
\* and any error is skipped; after the last one, no block at all makes the
\* content the placeholder text, and { summary, tree, content } is returned
FbFile ==
    /\ remote.pc = "contents"
    /\ \E answer \in {"file", "dir", "error"} :
          LET blocks == IF answer = "file"
                        THEN Append(remote.content.blocks, importantFiles[remote.at])
                        ELSE remote.content.blocks
              last == remote.at = Len(importantFiles)
          IN remote' = [remote EXCEPT
                           !.content = IF last /\ blocks = <<>>
                                       THEN Placeholder(NoContents)
                                       ELSE Fetched(<<remote.default>>, blocks),
                           !.at = IF last THEN 0 ELSE @ + 1,
                           !.pc = IF last THEN "save" ELSE "contents"]
    /\ UNCHANGED <<pipelineVars, clonerVars, extractorVars, walkVars, facadeVars, proc, objects, cm>>

\* fetchRepoData, catch block: saveToCache(cacheKey, { summary, tree,
\* content, timestamp }); a write error is logged
FbSave ==
    /\ remote.pc = "save"
    /\ \E ok \in BOOLEAN :
          remote' = [remote EXCEPT
                        !.cache = IF ok
                                  THEN [key |-> getCacheKey(remote.url),
                                        summary |-> remote.summary,
                                        tree |-> remote.tree,
                                        content |-> remote.content]
                                  ELSE @,
                        !.pc = "done"]
    /\ UNCHANGED <<pipelineVars, clonerVars, extractorVars, walkVars, facadeVars, proc, objects, cm>>

FallbackNext == FbClone \/ FbRepoInfo \/ FbTree \/ FbFile \/ FbSave

FallbackSpec == FallbackInit /\ [][FallbackNext]_vars

\* C33: fetchRepositoryData returns, and fetchRepoData caches, only what the
\* remote calls delivered: a snapshot that was returned or cached holds no
\* placeholder text for a tree or a content that was not fetched.
C33_NoPlaceholderSnapshot ==
    /\ remote.pc \in {"save", "done"} =>
          remote.tree.placeholder = "" /\ remote.content.placeholder = ""
    /\ remote.cache.tree.placeholder = "" /\ remote.cache.content.placeholder = ""

\* C36: a cache entry written under the key of a Reference with a branch
\* holds a tree and contents that were read at that branch.
C36_EntryOfItsRef ==
    remote.cache # NoCached /\ remote.branch # <<>> =>
        /\ remote.cache.key = getCacheKey(ThisUrl(RepoUrl(remote.owner, remote.repo), remote.branch))
        /\ remote.cache.tree.placeholder = "" => remote.cache.tree.ref = remote.branch
        /\ remote.cache.content.placeholder = "" => remote.cache.content.ref = remote.branch

\* C37: for the ingester's URL of a base URL u and a branch b,
\* cloneRepository clones extractBaseUrl(url) = u and checks out
\* extractBranch(url) = b.
C37_RoundTrip ==
    remote.pc # "clone" /\ remote.branch # <<>> =>
        /\ remote.cloneUrl = RepoUrl(remote.owner, remote.repo)
        /\ <<remote.cloneBranch>> = remote.branch

----------------------------------------------------------------------------
\* Claims on concurrent cloneRepository calls

\* the git clone of call d is running in directory t
ClonesInto(d, t) ==
    job[d].pc = "clone_end" /\ TempDir(job[d].url) = t /\ tmpDirs[t] = WorkDir("partial", ExtractBaseUrl(job[d].url), d)

\* call d has returned directory t, which holds the clone
Holds(d, t) == job[d].pc = "returned" /\ job[d].ret = t /\ tmpDirs[t].st = "repo"

\* C34: the rm of a call's error handling (the catch around the reuse, the
\* catch of the fresh clone) never removes a directory another call is
\* cloning into or has returned.
C34_NoRemovalUnderOther ==
    [][\A c \in Callers : \A d \in Callers \ {c} :
          CrRmStale(c) \/ CrCleanup(c) =>
              LET t == TempDir(job[c].url)
              IN ~ClonesInto(d, t) /\ ~Holds(d, t)]_vars

------------------------------------------------------------

----------------------------------------------------------------------------
\* The CacheManager under concurrent calls for one key: any number of
\* loadFromCache and saveToCache calls of different requests overlap on the
\* one file <key>.json.  Expiry goes by the clock and is left to the outcome
\* of the stat step here.

Clients == {1, 2, 3}

\* Bound: CacheManager calls in all
MaxCacheCalls == 3

\* the CacheEntry that call n hands to saveToCache
Given(n) == [summary |-> <<"summary", n>>, tree |-> <<"tree", n>>, content |-> <<"content", n>>]

Await(p, data) == [pc |-> p, data |-> data, ret |-> NoEntry, hit |-> FALSE]

CacheInit ==
    /\ PipelineAtRest
    /\ branch = FALSE
    /\ ClonerAtRest
    /\ ExtractorAtRest
    /\ WalkAtRest
    /\ FacadeAtRest
    /\ proc = NoProc
    /\ remote = NoRemote
    /\ objects = NoObjects
    /\ cm = [pc |-> "running", exists |-> FALSE, body |-> NoFile.body, calls |-> 0,
             client |-> [c \in Clients |-> Await("idle", NoEntry)]]

CmGoto(c, p) == [cm EXCEPT !.client[c].pc = p]

\* loadFromCache(key) or saveToCache(key, data) is called
CmCall(c) ==
    /\ cm.client[c].pc \in {"idle", "returned"}
    /\ cm.calls < MaxCacheCalls
    /\ \E load \in BOOLEAN :
          cm' = [cm EXCEPT !.calls = @ + 1,
                           !.client[c] = IF load THEN Await("stat", NoEntry)
                                         ELSE Await("open", Given(cm.calls + 1))]
    /\ UNCHANGED <<pipelineVars, clonerVars, extractorVars, walkVars, facadeVars, proc, remote, objects>>

\* loadFromCache: fs.stat(cacheFile) and the expiry test; return null for a
\* missing and for an expired file
CmStat(c) ==
    /\ cm.client[c].pc = "stat"
    /\ \E expired \in BOOLEAN :
          cm' = CmGoto(c, IF cm.exists /\ ~expired THEN "read" ELSE "returned")
    /\ UNCHANGED <<pipelineVars, clonerVars, extractorVars, walkVars, facadeVars, proc, remote, objects>>

\* loadFromCache: fs.readFile(cacheFile, 'utf-8') and return JSON.parse(data);
\* catch (_) { return null }
CmRead(c) ==
    /\ cm.client[c].pc = "read"
    /\ \E ioerr \in BOOLEAN :
          LET parsed == JSONParse(cm.body)
              hit == cm.exists /\ ~ioerr /\ parsed.ok
          IN cm' = [cm EXCEPT !.client[c].pc = "returned",
                              !.client[c].hit = hit,
                              !.client[c].ret = IF hit THEN parsed.entry ELSE NoEntry]
    /\ UNCHANGED <<pipelineVars, clonerVars, extractorVars, walkVars, facadeVars, proc, remote, objects>>

\* saveToCache: fs.mkdir(this.cacheDir, {recursive: true}), then fs.writeFile
\* opens the file with flag 'w', which truncates it; an error is logged
CmOpen(c) ==
    /\ cm.client[c].pc = "open"
    /\ \E ok \in BOOLEAN :
          cm' = IF ok
                THEN [cm EXCEPT !.exists = TRUE, !.body = NoFile.body, !.client[c].pc = "write"]
                ELSE CmGoto(c, "returned")
    /\ UNCHANGED <<pipelineVars, clonerVars, extractorVars, walkVars, facadeVars, proc, remote, objects>>

\* saveToCache: fs.writeFile writes JSON.stringify(data) from offset 0 and
\* closes; an error is logged
CmWrite(c) ==
    /\ cm.client[c].pc = "write"
    /\ \E ok \in BOOLEAN :
          IF ok
          THEN \E b \in Overwritten(cm.client[c].data, cm.body) :
                  cm' = [cm EXCEPT !.exists = TRUE, !.body = b, !.client[c].pc = "returned"]
          ELSE cm' = CmGoto(c, "returned")
    /\ UNCHANGED <<pipelineVars, clonerVars, extractorVars, walkVars, facadeVars, proc, remote, objects>>

CacheNext == \E c \in Clients : CmCall(c) \/ CmStat(c) \/ CmRead(c) \/ CmOpen(c) \/ CmWrite(c)

CacheSpec == CacheInit /\ [][CacheNext]_vars

\* C35: a loadFromCache that overlaps saveToCache calls for its key answers
\* null or one complete entry: what it returns as a hit is an entry, whole,
\* that some saveToCache call was given.
C35_HitIsWhole ==
    \A c \in Clients :
        cm.client[c].hit => \E n \in 1..cm.calls : cm.client[c].ret = Given(n)

----------------------------------------------------------------------------
\* getFilesAsObjects over what getFilesContent returns

\* a file whose text has a line of "=" and a "File:" line after it, with no
\* second line of "=": no marker of the content format
HalfQuoted == <<TextLine("see"), SepLine, FileLine(<<"main.py">>), TextLine("old")>>

ObjectFileLists ==
    { fs \in SeqsUpTo({ File(p, b) : p \in FilePaths, b \in Bodies \cup {HalfQuoted} }, MaxFiles) :
        \A i, j \in 1..Len(fs) : i # j => fs[i].path # fs[j].path }

\* /={50,}\nFile: ([^\n]+)\n={50,}\n/ matches at line i
HeadAt(text, i) ==
    /\ i + 3 <= Len(text)
    /\ text[i] = SepLine
    /\ text[i + 1][1] = "File"
    /\ text[i + 2] = SepLine

\* the lookahead (?=\n={50,}\nFile:|$) after the lazy ([\s\S]*?): the first
\* line of "=" with a "File:" line after it, or the end of the string
StopAfter(text, i) ==
    LET stops == {j \in (i + 4)..(Len(text) - 1) : text[j] = SepLine /\ text[j + 1][1] = "File"}
    IN IF stops = {} THEN Len(text) + 1 ELSE CHOOSE j \in stops : \A k \in stops : j <= k

\* getFilesAsObjects: fileRegex.exec in turn, { path: match[1], content:
\* match[2].trim() } pushed for every match
RECURSIVE FileObjects(_, _)
FileObjects(text, i) ==
    IF i > Len(text) THEN <<>>
    ELSE IF HeadAt(text, i)
    THEN LET end == StopAfter(text, i)
         IN <<[path |-> text[i + 1][2], content |-> Trim(SubSeq(text, i + 3, end - 1))]>>
               \o FileObjects(text, end)
    ELSE FileObjects(text, i + 1)

\* GitIngester.getFilesAsObjects
GetFilesAsObjects(fileContentsStr) ==
    IF fileContentsStr = <<>> THEN <<>> ELSE FileObjects(fileContentsStr, 1)

ObjectsInit ==
    /\ PipelineAtRest
    /\ branch = FALSE
    /\ ClonerAtRest
    /\ WalkAtRest
    /\ FacadeAtRest
    /\ proc = NoProc
    /\ remote = NoRemote
    /\ cm = NoCm
    /\ written \in ObjectFileLists
    /\ request \in SeqsUpTo(RequestPaths, MaxPaths)
    /\ extracted = <<>>
    /\ objects = NoObjects

\* ingester.getFilesAsObjects(filePaths) after a scan
AsObjects ==
    /\ ~objects.called
    /\ objects' = [called |-> TRUE,
                   files |-> GetFilesAsObjects(ExtractFilesContent(ConcatenatedContent(written), request))]
    /\ UNCHANGED <<written, request, extracted, pipelineVars, clonerVars, walkVars, facadeVars, proc, remote, cm>>

ObjectsNext == AsObjects

ObjectsSpec == ObjectsInit /\ [][ObjectsNext]_vars

\* C38: getFilesAsObjects returns one object for every distinct requested
\* path that extractFilesContent matched, in the order of the blocks of
\* getFilesContent, with the requested path and the content of its block.
C38_ObjectsOfBlocks ==
    objects.called =>
        LET content == ConcatenatedContent(written)
            result == ResultOf(content, request)
            keys == IF content = <<>> THEN <<>>
                    ELSE SelectSeq(ObjectEntries(request), LAMBDA p : result[p] # Null)
        IN objects.files = [k \in 1..Len(keys) |-> [path |-> keys[k], content |-> result[keys[k]]]]

====
